---------------------------- MODULE Spec2Model ----------------------------
(***************************************************************************)
(* A state-machine model of BlindCrawler (src/main.py): the navigation     *)
(* loop crawl(), the LLM call analyze_with_llm(), the registry builder     *)
(* announce_clickables() / _announce_current_page() and the click cascade. *)
(* The browser, the LLM, the speech engine and the user are environments:  *)
(* every result they can return is a nondeterministic input of an action.  *)
(***************************************************************************)
EXTENDS Integers, Sequences, FiniteSets, TLC

(***************************************************************************)
(* Program constants                                                       *)
(***************************************************************************)
\* analyze_with_llm: max_html_length
max_html_length == 60000
\* analyze_with_llm: the size above which a size-limit failure is retried
retry_threshold == 30000
\* analyze_with_llm: head and tail kept by the retry truncation
retry_keep == 15000
\* len("\n...[CONTENT TRUNCATED]...\n")
MarkerLen == 27
\* len("\n...[CONTENT HEAVILY TRUNCATED]...\n")
HeavyMarkerLen == 35
\* announce_clickables: self.items_per_page
items_per_page == 5
\* announce_clickables: identifier[:30]
short_id_len == 30
\* last-resort strategy: visible_elements[:5]
refresh_keep == 5
\* fetch_dynamic: body text shorter than this takes the special extraction
sparse_body_length == 100
\* fetch_dynamic: a container match must be longer than this
substance_threshold == 100

(***************************************************************************)
(* Bounds of the model                                                     *)
(***************************************************************************)
\* the largest number of browser windows followed
MaxWindows == 2
\* the largest number of iterations of the DOM polling loop followed
MaxPolls == 2
\* the largest number of elements a discovery query returns
MaxFound == 11
\* the largest number of LLM requests one analyze_with_llm call is followed for
MaxRequests == 3
\* the largest number of raw elements in the registry-function specification
MaxRaw == 3

Min(a, b) == IF a < b THEN a ELSE b

(***************************************************************************)
(* Python sequence slicing s[lo:hi] for 0 <= lo, on 1-based TLA+ sequences *)
(***************************************************************************)
Slice(s, lo, hi) == SubSeq(s, lo + 1, Min(hi, Len(s)))

(***************************************************************************)
(* HTML text.  A text is a sequence of pieces; a piece is a run of         *)
(* characters lo..hi of the original page text ("src"), of the truncation  *)
(* marker ("m1") or of the heavy truncation marker ("m2").                 *)
(***************************************************************************)
Piece(k, lo, hi) == [k |-> k, lo |-> lo, hi |-> hi]
PieceLen(p) == p.hi - p.lo + 1
SrcHtml(n) == IF n = 0 THEN << >> ELSE << Piece("src", 1, n) >>
Marker == << Piece("m1", 1, MarkerLen) >>
HeavyMarker == << Piece("m2", 1, HeavyMarkerLen) >>

RECURSIVE HLen(_)
HLen(h) == IF h = << >> THEN 0 ELSE PieceLen(Head(h)) + HLen(Tail(h))

\* html[:n]
RECURSIVE HTake(_, _)
HTake(h, n) ==
    IF n <= 0 \/ h = << >> THEN << >>
    ELSE LET p == Head(h) IN
         IF PieceLen(p) <= n
         THEN << p >> \o HTake(Tail(h), n - PieceLen(p))
         ELSE << Piece(p.k, p.lo, p.lo + n - 1) >>

\* html[n:]
RECURSIVE HDrop(_, _)
HDrop(h, n) ==
    IF h = << >> THEN << >>
    ELSE IF n <= 0 THEN h
    ELSE LET p == Head(h) IN
         IF PieceLen(p) <= n
         THEN HDrop(Tail(h), n - PieceLen(p))
         ELSE << Piece(p.k, p.lo + n, p.hi) >> \o Tail(h)

\* html[-n:] for n > 0
HLast(h, n) == HDrop(h, HLen(h) - n)


(***************************************************************************)
(* analyze_with_llm: the two truncations                                   *)
(***************************************************************************)
head_size == (max_html_length * 2) \div 3
tail_size == max_html_length - head_size

\* the entry truncation applied from the limit on, not above it
TruncateAtLimit(h) ==
    IF HLen(h) >= max_html_length
    THEN HTake(h, head_size) \o Marker \o HLast(h, tail_size)
    ELSE h

\* lines 338-345: the entry truncation
Truncate(h) ==
    IF HLen(h) > max_html_length
    THEN HTake(h, head_size) \o Marker \o HLast(h, tail_size)
    ELSE h

\* line 373: the truncation applied before the retry
HeavyTruncate(h) == HTake(h, retry_keep) \o HeavyMarker \o HLast(h, retry_keep)

(***************************************************************************)
(* Python values exchanged with the LLM.  A summary text is modelled by    *)
(* how json.loads() treats it: "plain" is not JSON, "json_str" decodes to  *)
(* an object with a string "summary", "json_null" to an object whose       *)
(* "summary" is null, "json_nonobject" to a value that is not an object.   *)
(* "NULL" is None (or any non-string), "MISSING" an absent key.            *)
(***************************************************************************)
SummaryTexts == {"plain", "json_str", "json_null", "json_nonobject"}
SummaryVals == {"MISSING", "NULL"} \cup SummaryTexts
SelectorVals == {"MISSING", "NULL", "", "#more"}

DictResult(s, c) == [dict |-> TRUE, summary |-> s, click_selector |-> c]
NonDict == [dict |-> FALSE, summary |-> "MISSING", click_selector |-> "MISSING"]
NoResult == [dict |-> FALSE, summary |-> "UNSET", click_selector |-> "UNSET"]

\* what resp.choices[0].message.content can be
Contents ==
    {[kind |-> "none", summary |-> "MISSING", click_selector |-> "MISSING"]}
    \cup {[kind |-> "text", summary |-> s, click_selector |-> "MISSING"]
             : s \in SummaryTexts}
    \cup {[kind |-> "json_nonobject", summary |-> "MISSING", click_selector |-> "MISSING"]}
    \cup {[kind |-> "json_object", summary |-> s, click_selector |-> ""]
             : s \in SummaryVals}
    \cup {[kind |-> "json_object", summary |-> "plain", click_selector |-> c]
             : c \in SelectorVals}

\* lines 362-365: json.loads of the stripped content, else the raw content
ParseReply(c) ==
    CASE c.kind = "none" -> DictResult("NULL", "")
      [] c.kind = "text" -> DictResult(c.summary, "")
      [] c.kind = "json_nonobject" -> NonDict
      [] OTHER -> DictResult(c.summary, c.click_selector)

\* lines 378-381 and 383-386: the two canned results
DegradedResult == DictResult("too_large", "")
ErrorResult == DictResult("error_occurred", "")

\* dict.get(key, default) on a result; Raises when the result has no get()
GetSummary(r, default) == IF r.summary = "MISSING" THEN default ELSE r.summary
GetSelector(r) == IF r.click_selector = "MISSING" THEN "" ELSE r.click_selector

\* lines 541-558 and 839-856: strip fences, json-decode, truncate to two
\* sentences.  "RAISES" when an exception leaves the block (strip or split
\* of a non-string), else the text spoken.
CleanSummary(s) ==
    CASE s = "NULL" -> "RAISES"                      \* summary.strip()
      [] s = "json_null" -> "RAISES"                 \* data.get -> None; None.split
      [] s = "json_str" -> "plain"                   \* data.get("summary", raw)
      [] s = "json_nonobject" -> "json_nonobject"    \* data.get raises, caught: raw
      [] OTHER -> s

(***************************************************************************)
(* Strings of the page are tuples of one-character strings.                *)
(***************************************************************************)
Rep(c, n) == [i \in 1..n |-> c]

\* str.lower() on one character
LowerChar(c) == CASE c = "A" -> "a" [] c = "B" -> "b" [] OTHER -> c
Lower(s) == [i \in 1..Len(s) |-> LowerChar(s[i])]

\* str.strip(): leading and trailing blanks removed
RECURSIVE LStrip(_)
LStrip(s) == IF s # << >> /\ Head(s) = " " THEN LStrip(Tail(s)) ELSE s
RECURSIVE RStrip(_)
RStrip(s) ==
    IF s # << >> /\ s[Len(s)] = " " THEN RStrip(SubSeq(s, 1, Len(s) - 1)) ELSE s
Strip(s) == RStrip(LStrip(s))

(***************************************************************************)
(* Summaries followed character by character.  A summary text is named by  *)
(* the text itself; the table gives its characters.                        *)
(***************************************************************************)
SummaryTable ==
    {<<"", <<>>>>,
     <<"a", <<"a">>>>,
     <<" a", <<" ", "a">>>>,
     <<"a ", <<"a", " ">>>>,
     <<". ", <<".", " ">>>>,
     <<". b", <<".", " ", "b">>>>,
     <<".  b", <<".", " ", " ", "b">>>>,
     <<". b ", <<".", " ", "b", " ">>>>,
     <<"a. ", <<"a", ".", " ">>>>,
     <<"a. b", <<"a", ".", " ", "b">>>>,
     <<"a.  b", <<"a", ".", " ", " ", "b">>>>,
     <<"a. b ", <<"a", ".", " ", "b", " ">>>>,
     <<" a. ", <<" ", "a", ".", " ">>>>,
     <<" a. b", <<" ", "a", ".", " ", "b">>>>,
     <<" a.  b", <<" ", "a", ".", " ", " ", "b">>>>,
     <<" a. b ", <<" ", "a", ".", " ", "b", " ">>>>,
     <<"a . ", <<"a", " ", ".", " ">>>>,
     <<"a . b", <<"a", " ", ".", " ", "b">>>>,
     <<"a .  b", <<"a", " ", ".", " ", " ", "b">>>>,
     <<"a . b ", <<"a", " ", ".", " ", "b", " ">>>>,
     <<". . ", <<".", " ", ".", " ">>>>,
     <<". . c", <<".", " ", ".", " ", "c">>>>,
     <<". .  c", <<".", " ", ".", " ", " ", "c">>>>,
     <<". . c ", <<".", " ", ".", " ", "c", " ">>>>,
     <<". b. ", <<".", " ", "b", ".", " ">>>>,
     <<". b. c", <<".", " ", "b", ".", " ", "c">>>>,
     <<". b.  c", <<".", " ", "b", ".", " ", " ", "c">>>>,
     <<". b. c ", <<".", " ", "b", ".", " ", "c", " ">>>>,
     <<".  b. ", <<".", " ", " ", "b", ".", " ">>>>,
     <<".  b. c", <<".", " ", " ", "b", ".", " ", "c">>>>,
     <<".  b.  c", <<".", " ", " ", "b", ".", " ", " ", "c">>>>,
     <<".  b. c ", <<".", " ", " ", "b", ".", " ", "c", " ">>>>,
     <<". b . ", <<".", " ", "b", " ", ".", " ">>>>,
     <<". b . c", <<".", " ", "b", " ", ".", " ", "c">>>>,
     <<". b .  c", <<".", " ", "b", " ", ".", " ", " ", "c">>>>,
     <<". b . c ", <<".", " ", "b", " ", ".", " ", "c", " ">>>>,
     <<"a. . ", <<"a", ".", " ", ".", " ">>>>,
     <<"a. . c", <<"a", ".", " ", ".", " ", "c">>>>,
     <<"a. .  c", <<"a", ".", " ", ".", " ", " ", "c">>>>,
     <<"a. . c ", <<"a", ".", " ", ".", " ", "c", " ">>>>,
     <<"a. b. ", <<"a", ".", " ", "b", ".", " ">>>>,
     <<"a. b. c", <<"a", ".", " ", "b", ".", " ", "c">>>>,
     <<"a. b.  c", <<"a", ".", " ", "b", ".", " ", " ", "c">>>>,
     <<"a. b. c ", <<"a", ".", " ", "b", ".", " ", "c", " ">>>>,
     <<"a.  b. ", <<"a", ".", " ", " ", "b", ".", " ">>>>,
     <<"a.  b. c", <<"a", ".", " ", " ", "b", ".", " ", "c">>>>,
     <<"a.  b.  c", <<"a", ".", " ", " ", "b", ".", " ", " ", "c">>>>,
     <<"a.  b. c ", <<"a", ".", " ", " ", "b", ".", " ", "c", " ">>>>,
     <<"a. b . ", <<"a", ".", " ", "b", " ", ".", " ">>>>,
     <<"a. b . c", <<"a", ".", " ", "b", " ", ".", " ", "c">>>>,
     <<"a. b .  c", <<"a", ".", " ", "b", " ", ".", " ", " ", "c">>>>,
     <<"a. b . c ", <<"a", ".", " ", "b", " ", ".", " ", "c", " ">>>>,
     <<" a. . ", <<" ", "a", ".", " ", ".", " ">>>>,
     <<" a. . c", <<" ", "a", ".", " ", ".", " ", "c">>>>,
     <<" a. .  c", <<" ", "a", ".", " ", ".", " ", " ", "c">>>>,
     <<" a. . c ", <<" ", "a", ".", " ", ".", " ", "c", " ">>>>,
     <<" a. b. ", <<" ", "a", ".", " ", "b", ".", " ">>>>,
     <<" a. b. c", <<" ", "a", ".", " ", "b", ".", " ", "c">>>>,
     <<" a. b.  c", <<" ", "a", ".", " ", "b", ".", " ", " ", "c">>>>,
     <<" a. b. c ", <<" ", "a", ".", " ", "b", ".", " ", "c", " ">>>>,
     <<" a.  b. ", <<" ", "a", ".", " ", " ", "b", ".", " ">>>>,
     <<" a.  b. c", <<" ", "a", ".", " ", " ", "b", ".", " ", "c">>>>,
     <<" a.  b.  c", <<" ", "a", ".", " ", " ", "b", ".", " ", " ", "c">>>>,
     <<" a.  b. c ", <<" ", "a", ".", " ", " ", "b", ".", " ", "c", " ">>>>,
     <<" a. b . ", <<" ", "a", ".", " ", "b", " ", ".", " ">>>>,
     <<" a. b . c", <<" ", "a", ".", " ", "b", " ", ".", " ", "c">>>>,
     <<" a. b .  c", <<" ", "a", ".", " ", "b", " ", ".", " ", " ", "c">>>>,
     <<" a. b . c ", <<" ", "a", ".", " ", "b", " ", ".", " ", "c", " ">>>>,
     <<"a . . ", <<"a", " ", ".", " ", ".", " ">>>>,
     <<"a . . c", <<"a", " ", ".", " ", ".", " ", "c">>>>,
     <<"a . .  c", <<"a", " ", ".", " ", ".", " ", " ", "c">>>>,
     <<"a . . c ", <<"a", " ", ".", " ", ".", " ", "c", " ">>>>,
     <<"a . b. ", <<"a", " ", ".", " ", "b", ".", " ">>>>,
     <<"a . b. c", <<"a", " ", ".", " ", "b", ".", " ", "c">>>>,
     <<"a . b.  c", <<"a", " ", ".", " ", "b", ".", " ", " ", "c">>>>,
     <<"a . b. c ", <<"a", " ", ".", " ", "b", ".", " ", "c", " ">>>>,
     <<"a .  b. ", <<"a", " ", ".", " ", " ", "b", ".", " ">>>>,
     <<"a .  b. c", <<"a", " ", ".", " ", " ", "b", ".", " ", "c">>>>,
     <<"a .  b.  c", <<"a", " ", ".", " ", " ", "b", ".", " ", " ", "c">>>>,
     <<"a .  b. c ", <<"a", " ", ".", " ", " ", "b", ".", " ", "c", " ">>>>,
     <<"a . b . ", <<"a", " ", ".", " ", "b", " ", ".", " ">>>>,
     <<"a . b . c", <<"a", " ", ".", " ", "b", " ", ".", " ", "c">>>>,
     <<"a . b .  c", <<"a", " ", ".", " ", "b", " ", ".", " ", " ", "c">>>>,
     <<"a . b . c ", <<"a", " ", ".", " ", "b", " ", ".", " ", "c", " ">>>>,
     <<"a.. b. c", <<"a", ".", ".", " ", "b", ".", " ", "c">>>>,
     <<"a. b.. c", <<"a", ".", " ", "b", ".", ".", " ", "c">>>>,
     <<"a. b. c. d", <<"a", ".", " ", "b", ".", " ", "c", ".", " ", "d">>>>,
     <<"a.b.c", <<"a", ".", "b", ".", "c">>>>,
     <<"a. b. c.", <<"a", ".", " ", "b", ".", " ", "c", ".">>>>,
     <<"a. c.", <<"a", ".", " ", "c", ".">>>>,
     <<" ", <<" ">>>>}

\* summaries that are the text of a JSON object, and the text of its
\* "summary" member
JsonSummaries ==
    {<<"{\"summary\": \"a. b. c\"}", "a. b. c">>,
     <<"{\"summary\": \" a. b. c\"}", " a. b. c">>,
     <<"{\"summary\": \"a. b . c\"}", "a. b . c">>,
     <<"{\"summary\": \" a. b\"}", " a. b">>,
     <<"{\"summary\": \"a \"}", "a ">>,
     <<"{\"summary\": \" \"}", " ">>}

SummaryNames == {p[1] : p \in SummaryTable} \cup {p[1] : p \in JsonSummaries}
Chars(name) == (CHOOSE p \in SummaryTable : p[1] = name)[2]

\* lines 542-551 and 840-849 on such a summary: the "summary" member of a
\* JSON object as it is, any other text stripped
Cleaned(name) ==
    IF \E p \in JsonSummaries : p[1] = name
    THEN Chars((CHOOSE p \in JsonSummaries : p[1] = name)[2])
    ELSE Strip(Chars(name))

\* str.split('. ')
RECURSIVE SplitFrom(_, _)
SplitFrom(s, i) ==
    IF i >= Len(s) THEN << s >>
    ELSE IF s[i] = "." /\ s[i + 1] = " "
         THEN << SubSeq(s, 1, i - 1) >> \o SplitFrom(SubSeq(s, i + 2, Len(s)), 1)
         ELSE SplitFrom(s, i + 1)
Split(s) == SplitFrom(s, 1)

\* '. '.join(parts)
RECURSIVE Join(_)
Join(parts) ==
    IF parts = << >> THEN << >>
    ELSE IF Len(parts) = 1 THEN parts[1]
    ELSE parts[1] \o <<".", " ">> \o Join(Tail(parts))

\* str.endswith('.')
EndsWithDot(s) == s # << >> /\ s[Len(s)] = "."

\* the truncation keeping every part
TwoSentencesKeepsAll(s) == s

\* lines 554-558 and 852-856: truncate to two sentences
TwoSentences(s) ==
    LET parts == Split(s) IN
    IF Len(parts) > 2
    THEN LET joined == Strip(Join(SubSeq(parts, 1, 2))) IN
         IF EndsWithDot(joined) THEN joined ELSE joined \o <<".">>
    ELSE s

\* lines 542-558 and 840-856 on a summary of the table
NormalizeSummary(name) == TwoSentences(Cleaned(name))

(***************************************************************************)
(* announce_clickables: filter, identifier, deduplication                  *)
(* A raw element is what find_elements returns: its handle h, whether      *)
(* is_displayed() answers true, its text and attributes, and whether a     *)
(* call on it raises (a stale reference).                                  *)
(***************************************************************************)
RawEl(h, disp, text, aria, title, value, stale) ==
    [h |-> h, displayed |-> disp, text |-> text, aria |-> aria,
     title |-> title, value |-> value, stale |-> stale]

\* line 437: el_text or el_aria or el_title or el_value
Identifier(el) ==
    IF Strip(el.text) # << >> THEN Strip(el.text)
    ELSE IF el.aria # << >> THEN el.aria
    ELSE IF el.title # << >> THEN el.title
    ELSE el.value

\* lines 426-445: keep the displayed elements that have an identifier; an
\* element whose calls raise is skipped
RECURSIVE FilterVisible(_)
FilterVisible(all_elements) ==
    IF all_elements = << >> THEN << >>
    ELSE LET el == Head(all_elements)
             rest == FilterVisible(Tail(all_elements))
         IN  IF ~el.stale /\ el.displayed /\ Identifier(el) # << >>
             THEN << <<el.h, Identifier(el)>> >> \o rest
             ELSE rest

\* a short id that keeps the case
ShortIdCaseSensitive(identifier) == Slice(identifier, 0, short_id_len)

\* line 454: identifier[:30].lower()
ShortId(identifier) == Lower(Slice(identifier, 0, short_id_len))

\* a deduplication that deletes from the list it iterates over: after a
\* deletion the element that moved into the freed slot is never examined
RECURSIVE DedupSkipFrom(_, _, _)
DedupSkipFrom(items, i, seen) ==
    IF i > Len(items) THEN items
    ELSE LET k == ShortId(items[i][2]) IN
         IF k \in seen
         THEN DedupSkipFrom(SubSeq(items, 1, i - 1) \o SubSeq(items, i + 1, Len(items)),
                            i + 1, seen)
         ELSE DedupSkipFrom(items, i + 1, seen \cup {k})
DedupSkipping(visible_elements) == DedupSkipFrom(visible_elements, 1, {})

\* lines 450-457: first occurrence of each short id wins
RECURSIVE DedupFrom(_, _)
DedupFrom(items, seen_ids) ==
    IF items = << >> THEN << >>
    ELSE LET short_id == ShortId(Head(items)[2]) IN
         IF short_id \notin seen_ids
         THEN << Head(items) >> \o DedupFrom(Tail(items), seen_ids \cup {short_id})
         ELSE DedupFrom(Tail(items), seen_ids)
Dedup(visible_elements) == DedupFrom(visible_elements, {})

\* lines 465, 505, 570: number of pages of a registry of n items
TotalPages(n) == (n + items_per_page - 1) \div items_per_page

\* a window whose end index is taken as inclusive
CurrentPageItemsShort(all_items, page) ==
    LET start_idx == page * items_per_page
        end_idx == Min(start_idx + items_per_page, Len(all_items))
    IN  Slice(all_items, start_idx, end_idx - 1)

\* lines 485-490: the window _announce_current_page takes from the registry
CurrentPageItems(all_items, page) ==
    LET start_idx == page * items_per_page
        end_idx == Min(start_idx + items_per_page, Len(all_items))
    IN  Slice(all_items, start_idx, end_idx)

\* line 490: the handles of a window
Handles(items) == [i \in 1..Len(items) |-> items[i][1]]

(***************************************************************************)
(* The environment's inputs                                                *)
(***************************************************************************)
\* __main__: START_URL
StartUrl == "https://www.google.com/"
Urls == {StartUrl, "https://example.org/"}
\* line 148: "google.com" in url.lower()
IsGoogle(u) == u = StartUrl

\* lengths of the page texts the browser hands to fetch_dynamic
HtmlLens == {0, 101, 60000, 70000}
\* and of the pages fetched after a click
PostClickHtmlLens == {101, 70000}

Letters == <<"a", "b", "c", "d", "e", "f", "g", "h",
             "i", "j", "k", "l", "m", "n", "o", "p">>
Name(k) == << Letters[((k - 1) % Len(Letters)) + 1] >>

\* element handles: the k-th element of the registry query, and the k-th
\* element of the anchor/button query of the last-resort strategy
El(k) == <<"el", k>>
RefreshedEl(k) == <<"refreshed", k>>

\* the element lists find_elements returns in the navigation specification:
\* n elements that are all distinct, that repeat each text twice, of which
\* every second one is hidden, or that carry only an aria-label
Patterns == {"distinct", "pairs", "hidden", "labelled"}
PageElement(k, p) ==
    CASE p = "pairs" ->
           RawEl(El(k), TRUE, Name((k + 1) \div 2), << >>, << >>, << >>, FALSE)
      [] p = "hidden" ->
           RawEl(El(k), k % 2 = 1, Name(k), << >>, << >>, << >>, FALSE)
      [] p = "labelled" ->
           RawEl(El(k), TRUE, << >>, Name(k), << >>, << >>, FALSE)
      [] OTHER ->
           RawEl(El(k), TRUE, Name(k), << >>, << >>, << >>, FALSE)
PageElements(n, p) == [k \in 1..n |-> PageElement(k, p)]
\* in the navigation specification: no element, one page, two pages, three
MainDiscoveries ==
    {PageElements(n, "distinct") : n \in {0, 3, 8, MaxFound}}
    \cup {PageElements(MaxFound, p) : p \in Patterns}

\* page snapshots (lines 621-641, 755-775); NoSnapshot is a name not bound
Snapshot(t, n, h, w, v) ==
    [bodyText |-> t, elementCount |-> n, height |-> h, width |-> w,
     visibleElements |-> v, bound |-> TRUE]
NoSnapshot ==
    [bodyText |-> << >>, elementCount |-> 0, height |-> 0, width |-> 0,
     visibleElements |-> 0, bound |-> FALSE]
BaseSnapshot == Snapshot(<<"x">>, 100, 1000, 800, 10)
\* the snapshots a poll can read: the baseline, and one signal changed
PostSnapshots ==
    {BaseSnapshot,
     Snapshot(<<"x", "y">>, 100, 1000, 800, 10),
     Snapshot(<<"x">>, 106, 1000, 800, 10)}

\* what the user types at the prompt, after strip(): the empty line, exit,
\* a line that is not a number, a line such as a superscript two for which
\* isdigit() is true and int() raises, and the numbers 0..items_per_page + 1
Numbers == 0..(items_per_page + 1)

(***************************************************************************)
(* State.  The variables are the fields of BlindCrawler, the browser's     *)
(* state, and the locals of crawl() and analyze_with_llm.  A local that is *)
(* assigned again before it is next read is cleared when it is last read,  *)
(* and so are the records of the last fetch and of the last LLM call when  *)
(* crawl() has read the result.                                            *)
(***************************************************************************)
VARIABLES
    pc,                  \* position of crawl()
    cont,                \* where analyze_with_llm returns to
    interactive,         \* self.interactive
    clickable_items,     \* self.clickable_items: handles of the current window
    all_clickable_items, \* self.all_clickable_items: <<handle, identifier>>
    current_page,        \* self.current_page
    paging_set,          \* self.current_page / self.items_per_page exist
    filtered_count,      \* len(visible_elements) as last printed (line 446)
    last_found,          \* all_elements of the call that printed it (line 420)
    listener_running,    \* self.global_listener started and not stopped
    driver_open,         \* self.driver not yet quit
    cur_url,             \* driver.current_url
    n_windows,           \* len(driver.window_handles)
    html,                \* the html argument of analyze_with_llm
    llm_sent,            \* lengths of the fragments sent by the current call
    result,              \* the value analyze_with_llm returned
    summary,             \* crawl(): summary
    fetch_branch,        \* the branch the last fetch_dynamic returned from
    fetching,            \* a call of fetch_dynamic on its own: arguments and page
    listener_pc,         \* position of the key listener's thread
    cycle,               \* history of the click cycle under way
    last_spoken,         \* the last text handed to the speech engine
    idx,                 \* crawl(): idx
    advance_local,       \* crawl(): the value held while an empty line is handled
    click_item,          \* crawl(): click_item, the handle chosen
    xpath_live,          \* the page has an element at the saved XPath
    element_tag,         \* crawl(): element_tag
    element_text,        \* crawl(): element_text (empty or not)
    element_href,        \* crawl(): element_href (None or not)
    current_url,         \* crawl(): current_url recorded before the click
    clicked,             \* crawl(): clicked
    tried,               \* the click strategies attempted in this cycle
    method,              \* the strategy whose click succeeded, or "none"
    content_changed,     \* crawl(): content_changed
    pre_click_snapshot,  \* crawl(): pre_click_snapshot
    post_click_snapshot, \* crawl(): post_click_snapshot, not bound before line 755
    polls                \* iterations of the DOM polling loop so far

regvars == <<clickable_items, all_clickable_items, current_page, paging_set,
            filtered_count, last_found>>
sessvars == <<interactive, listener_running, driver_open>>
drvvars == <<cur_url, n_windows>>
llmvars == <<html, llm_sent, result>>
settlevars == <<content_changed, pre_click_snapshot, post_click_snapshot, polls>>
clickvars == <<idx, advance_local, click_item, xpath_live, element_tag, element_text, element_href,
               current_url, clicked, tried, method, settlevars>>
vars == <<pc, cont, regvars, sessvars, drvvars, llmvars, summary, fetch_branch,
          fetching, listener_pc, cycle, last_spoken, clickvars>>

\* History of a click cycle, kept for the properties and read by no action:
\* whether the click opened a window, whether line 755 has taken a snapshot
\* since the click, whether the registry is still the one the click was
\* chosen from.
Cycle(opened, snapshot_taken, stale) ==
    [opened |-> opened, snapshot_taken |-> snapshot_taken, stale |-> stale]
NoCycle == Cycle(FALSE, FALSE, FALSE)

\* no call of fetch_dynamic is followed on its own
NoFetch == [url |-> "none", click_selector |-> "", page |-> "none"]

\* speak(text): empty or blank text is not spoken
Say(k, d) == [k |-> k, d |-> d]
Speak(msg) ==
    IF msg.k = "" \/ (msg.k = "summary" /\ Strip(msg.d) = << >>)
    THEN last_spoken
    ELSE msg

\* __init__ (lines 29-56), then the call of crawl() not yet started
Init ==
    /\ pc = "start"
    /\ cont = "none"
    /\ interactive = FALSE
    /\ clickable_items = << >>
    /\ all_clickable_items = << >>
    /\ current_page = 0
    /\ paging_set = FALSE
    /\ filtered_count = 0
    /\ last_found = << >>
    /\ listener_running = TRUE
    /\ driver_open = TRUE
    /\ cur_url = "data:,"
    /\ n_windows = 1
    /\ html = << >>
    /\ llm_sent = << >>
    /\ result = NoResult
    /\ summary = ""
    /\ fetch_branch = "none"
    /\ fetching = NoFetch
    /\ listener_pc = "idle"
    /\ cycle = NoCycle
    /\ last_spoken = Say("", << >>)
    /\ idx = 0
    /\ advance_local = 0
    /\ click_item = El(0)
    /\ xpath_live = FALSE
    /\ element_tag = "unset"
    /\ element_text = "unset"
    /\ element_href = "unset"
    /\ current_url = "unset"
    /\ clicked = FALSE
    /\ tried = << >>
    /\ method = "none"
    /\ content_changed = FALSE
    /\ pre_click_snapshot = NoSnapshot
    /\ post_click_snapshot = NoSnapshot
    /\ polls = 0

(***************************************************************************)
(* fetch_dynamic (lines 104-331)                                           *)
(***************************************************************************)
\* fetch_dynamic without the handler of lines 329-331
FetchBranchUnguarded(url, early_raises, small_body, special_raises, container, clean_raises) ==
    IF early_raises THEN "raises"
    ELSE IF (IsGoogle(url) \/ small_body) /\ ~special_raises THEN "special"
    ELSE IF container THEN "container"
    ELSE IF ~clean_raises THEN "cleaned"
    ELSE "page_source"

\* fetch_dynamic trying the content containers before the special extraction
FetchBranchContainerFirst(url, early_raises, small_body, special_raises, container, clean_raises) ==
    IF early_raises THEN "page_source_on_error"
    ELSE IF container THEN "container"
    ELSE IF ~special_raises THEN "special"
    ELSE IF ~clean_raises THEN "cleaned"
    ELSE "page_source"

\* the branch fetch_dynamic returns from, given what the browser does:
\* early_raises: driver.get or the body-length script raises (line 329);
\* small_body: body text shorter than 100; special_raises: the structured
\* extraction raises; container: some content selector has a match longer
\* than 100; clean_raises: the cleaning script raises
FetchBranch(url, early_raises, small_body, special_raises, container, clean_raises) ==
    IF early_raises THEN "page_source_on_error"
    ELSE IF (IsGoogle(url) \/ small_body) /\ ~special_raises THEN "special"
    ELSE IF container THEN "container"
    ELSE IF ~clean_raises THEN "cleaned"
    ELSE "page_source"

\* the text of kind k and length n
Text(k, n) == IF n = 0 THEN << >> ELSE << Piece(k, 1, n) >>
\* None, where a text is expected
PyNone == << Piece("None", 1, 0) >>

\* what find_elements returns for one content selector: it raises, or the
\* lengths of the matches' outerHTML in document order (-1: reading the
\* attribute raises or yields None)
SelectorResult(raises, matches) == [raises |-> raises, matches |-> matches]

\* names of the matches of the content selectors followed
OuterNames == << <<"article[1]", "article[2]", "article[3]">>,
                 <<"main[1]", "main[2]", "main[3]">> >>

\* lines 296-304: the first match, from the j-th on, longer than the
\* threshold; 0 when there is none
RECURSIVE FirstSubstantial(_, _)
FirstSubstantial(matches, j) ==
    IF j > Len(matches) THEN 0
    ELSE IF matches[j] > substance_threshold THEN j
    ELSE FirstSubstantial(matches, j + 1)

\* lines 293-306: the selectors in priority order, from the s-th on; the
\* selector and match returned, <<0, 0>> when no selector has one
RECURSIVE ContainerMatch(_, _)
ContainerMatch(containers, s) ==
    IF s > Len(containers) THEN <<0, 0>>
    ELSE IF ~containers[s].raises /\ FirstSubstantial(containers[s].matches, 1) # 0
         THEN <<s, FirstSubstantial(containers[s].matches, 1)>>
         ELSE ContainerMatch(containers, s + 1)

\* the text fetch_dynamic returns from a branch
Fragment(page, branch) ==
    LET m == ContainerMatch(page.containers, 1) IN
    CASE branch = "special" -> Text("structured", page.structured_len)
      [] branch = "container" ->
           Text(OuterNames[m[1]][m[2]], page.containers[m[1]].matches[m[2]])
      [] branch = "cleaned" ->
           IF page.clean = "none" THEN PyNone ELSE Text("cleaned", page.cleaned_len)
      [] branch \in {"page_source", "page_source_on_error"} ->
           Text("page_source", page.source_len)
      [] OTHER -> PyNone

\* fetch_dynamic on a page: the branch it leaves by and the text returned.
\* The cleaned document is returned only when len() accepts it (line 322);
\* when driver.page_source raises (lines 328, 331) so does fetch_dynamic
FetchResult(url, page) ==
    LET b == FetchBranch(url, page.load_raises \/ page.script_raises,
                         page.body_len < sparse_body_length, page.special_raises,
                         ContainerMatch(page.containers, 1) # <<0, 0>>,
                         page.clean # "html")
    IN  IF b \in {"page_source", "page_source_on_error"} /\ page.source_raises
        THEN [branch |-> "raises", html |-> PyNone]
        ELSE [branch |-> b, html |-> Fragment(page, b)]

\* lines 125-144: the selector is clicked
SelectorClicked(click_selector, page) ==
    click_selector # "" /\ ~page.load_raises /\ ~page.click_raises

\* the pages of the navigation specification: every text of the page has
\* length n (the synthesized document is never shorter than its template),
\* at most one content container matches, the page source can be read
MainPages(lens) ==
    {[load_raises |-> FALSE, script_raises |-> e, body_len |-> b,
      special_raises |-> s, containers |-> c, clean |-> k, click_raises |-> x,
      source_raises |-> FALSE,
      structured_len |-> IF n > substance_threshold THEN n ELSE substance_threshold + 1,
      cleaned_len |-> n, source_len |-> n] :
        e \in BOOLEAN, b \in {0, 500}, s \in BOOLEAN, x \in BOOLEAN,
        k \in {"html", "raises"}, n \in lens,
        c \in UNION {{<< >>, << SelectorResult(FALSE, <<m>>) >>} : m \in lens}}

\* fetch_dynamic(url, click_selector) on one of the pages: the page may be
\* loaded (and redirected), the selector clicked (which may navigate or open
\* a window), and a fragment is returned
FetchDynamic(url, click_selector, pages) ==
    \E r \in {[result |-> FetchResult(url, p),
               clicked |-> SelectorClicked(click_selector, p)] : p \in pages} :
       /\ \E u \in (IF cur_url # url \/ r.clicked THEN Urls ELSE {cur_url}) :
             cur_url' = u
       /\ \E w \in (IF r.clicked
                    THEN {n_windows, Min(n_windows + 1, MaxWindows)}
                    ELSE {n_windows}) :
             n_windows' = w
       /\ fetch_branch' = r.result.branch
       /\ html' = r.result.html

(***************************************************************************)
(* analyze_with_llm (lines 333-386): one invocation, its request and what  *)
(* it does with the reply                                                  *)
(***************************************************************************)
\* a request: the HTML text placed in the prompt (line 351) and how it ends
Sent(t, o) == [len |-> HLen(t), text |-> t, outcome |-> o]

\* the request is answered: lines 362-365
LLMReply ==
    /\ UNCHANGED <<fetching, listener_pc, cycle>>
    /\ pc = "llm"
    /\ \E c \in Contents :
          /\ result' = ParseReply(c)
          /\ llm_sent' = Append(llm_sent, Sent(Truncate(html), "ok"))
    /\ html' = << >>
    /\ pc' = cont
    /\ fetch_branch' = "none"
    /\ UNCHANGED <<cont, regvars, sessvars, drvvars, summary,
                   last_spoken, clickvars>>

\* the request fails with a size-limit error: lines 369-381
LLMSizeError ==
    /\ UNCHANGED <<fetching, listener_pc, cycle>>
    /\ pc = "llm"
    /\ LET sent == Truncate(html) IN
       /\ llm_sent' = Append(llm_sent, Sent(sent, "size"))
       /\ IF HLen(sent) > retry_threshold
          THEN /\ Len(llm_sent) + 1 < MaxRequests
               /\ html' = HeavyTruncate(sent)
               /\ pc' = "llm"
               /\ UNCHANGED result
          ELSE /\ html' = << >>
               /\ result' = DegradedResult
               /\ pc' = cont
    /\ fetch_branch' = "none"
    /\ UNCHANGED <<cont, regvars, sessvars, drvvars, summary,
                   last_spoken, clickvars>>

\* the request fails with another error: lines 383-386
LLMApiError ==
    /\ UNCHANGED <<fetching, listener_pc, cycle>>
    /\ pc = "llm"
    /\ llm_sent' = Append(llm_sent, Sent(Truncate(html), "api"))
    /\ html' = << >>
    /\ result' = ErrorResult
    /\ pc' = cont
    /\ fetch_branch' = "none"
    /\ UNCHANGED <<cont, regvars, sessvars, drvvars, summary,
                   last_spoken, clickvars>>

(***************************************************************************)
(* crawl(): the initial load (lines 523-565)                               *)
(***************************************************************************)
\* lines 525-533: announce the visit, fetch, call the LLM
CrawlStart ==
    /\ UNCHANGED <<fetching, listener_pc, cycle>>
    /\ pc = "start"
    /\ last_spoken' = Speak(Say("visiting", << >>))
    /\ FetchDynamic(StartUrl, "", MainPages(HtmlLens))
    /\ llm_sent' = << >>
    /\ pc' = "llm"
    /\ cont' = "init1"
    /\ UNCHANGED <<regvars, sessvars, result, summary, clickvars>>

\* lines 534-538: read the result; a result without get(), or a selector
\* that is not a string, raises out of crawl()
InitAfterFirstAnalysis ==
    /\ UNCHANGED <<fetching, listener_pc, cycle>>
    /\ pc = "init1"
    /\ IF ~result.dict \/ GetSelector(result) = "NULL"
       THEN /\ pc' = "raised"
            /\ llm_sent' = << >>
            /\ fetch_branch' = "none"
            /\ UNCHANGED <<cont, summary, drvvars, html>>
       ELSE /\ summary' = GetSummary(result, "")
            /\ IF GetSelector(result) # ""
               THEN /\ FetchDynamic(StartUrl, GetSelector(result), MainPages(HtmlLens))
                    /\ llm_sent' = << >>
                    /\ pc' = "llm"
                    /\ cont' = "init2"
               ELSE /\ pc' = "init_sum"
                    /\ llm_sent' = << >>
                    /\ fetch_branch' = "none"
                    /\ UNCHANGED <<cont, drvvars, html>>
    /\ result' = NoResult
    /\ UNCHANGED <<regvars, sessvars, last_spoken, clickvars>>

\* line 539: summary = res2.get("summary", summary)
InitAfterSecondAnalysis ==
    /\ UNCHANGED <<fetching, listener_pc, cycle>>
    /\ pc = "init2"
    /\ IF ~result.dict
       THEN pc' = "raised" /\ UNCHANGED summary
       ELSE pc' = "init_sum" /\ summary' = GetSummary(result, summary)
    /\ result' = NoResult
    /\ llm_sent' = << >>
    /\ fetch_branch' = "none"
    /\ UNCHANGED <<cont, regvars, sessvars, drvvars, html, last_spoken, clickvars>>

\* lines 541-561: clean, truncate and speak the summary
InitSummarize ==
    /\ UNCHANGED <<fetching, listener_pc, cycle>>
    /\ pc = "init_sum"
    /\ IF summary \in SummaryNames
       THEN /\ last_spoken' = Speak(Say("summary", NormalizeSummary(summary)))
            /\ pc' = "announce0"
       ELSE IF CleanSummary(summary) = "RAISES"
       THEN pc' = "raised" /\ UNCHANGED last_spoken
       ELSE /\ last_spoken' = Speak(Say(CleanSummary(summary), << >>))
            /\ pc' = "announce0"
    /\ summary' = ""
    /\ UNCHANGED <<cont, regvars, sessvars, drvvars, llmvars, fetch_branch, clickvars>>

(***************************************************************************)
(* announce_clickables (lines 388-474) and _announce_current_page          *)
(* (lines 483-521)                                                         *)
(***************************************************************************)
\* line 501: the identifier as announced
OptionLabel(identifier) ==
    IF Len(identifier) < 30 THEN identifier
    ELSE Slice(identifier, 0, 27) \o <<".", ".", ".">>

\* lines 492-521: what _announce_current_page speaks for a window
PageAnnouncement(all_items, page) ==
    LET items == CurrentPageItems(all_items, page) IN
    IF items = << >> THEN Say("no_items", << >>)
    ELSE Say("options", <<page + 1, TotalPages(Len(all_items)),
                          [i \in 1..Len(items) |-> OptionLabel(items[i][2])]>>)

\* an announcement that speaks the window and leaves self.clickable_items
\* as it was
AnnounceCurrentPageStale(all_items, page) ==
    /\ clickable_items' = clickable_items
    /\ last_spoken' = Speak(PageAnnouncement(all_items, page))

\* _announce_current_page with self.current_page = page
AnnounceCurrentPage(all_items, page) ==
    /\ clickable_items' = Handles(CurrentPageItems(all_items, page))
    /\ last_spoken' = Speak(PageAnnouncement(all_items, page))

\* the registry announce_clickables stores for a query result (lines 418-462)
Registry(all_elements) == Dedup(FilterVisible(all_elements))

\* at "continue" the locals of the click cycle are dead, all but
\* post_click_snapshot, which line 813 may read before line 755 assigns it
CycleLocalsDead ==
    /\ idx' = 0
    /\ advance_local' = 0
    /\ click_item' = El(0)
    /\ xpath_live' = FALSE
    /\ element_tag' = "unset"
    /\ element_text' = "unset"
    /\ element_href' = "unset"
    /\ current_url' = "unset"
    /\ clicked' = FALSE
    /\ tried' = << >>
    /\ method' = "none"
    /\ content_changed' = FALSE
    /\ pre_click_snapshot' = NoSnapshot
    /\ polls' = 0

\* crawl() calls announce_clickables at lines 564, 646, 719, 817 and 870,
\* each time on its way back to the prompt; line 565 follows the first call
AnnounceReturn ==
    /\ UNCHANGED <<fetching, listener_pc>>
    /\ cycle' = NoCycle
    /\ pc \in {"announce0", "announce"}
    /\ pc' = "prompt"
    /\ interactive' = IF pc = "announce0" THEN TRUE ELSE interactive
    /\ CycleLocalsDead
    /\ UNCHANGED <<cont, listener_running, driver_open, drvvars, llmvars, summary,
                   fetch_branch, post_click_snapshot>>

\* a rebuild that stores the registry and keeps the page counter
AnnounceClickablesKeepsPage(found) ==
    /\ AnnounceReturn
    /\ \E all_elements \in found :
          /\ all_clickable_items' = Registry(all_elements)
          /\ current_page' = current_page
          /\ paging_set' = TRUE
          /\ filtered_count' = Len(FilterVisible(all_elements))
          /\ last_found' = all_elements
          /\ AnnounceCurrentPage(Registry(all_elements), current_page)

\* lines 390-467: query, filter, deduplicate, store, announce page 0
AnnounceClickables(found) ==
    /\ AnnounceReturn
    /\ \E all_elements \in found :
          /\ all_clickable_items' = Registry(all_elements)
          /\ current_page' = 0
          /\ paging_set' = TRUE
          /\ filtered_count' = Len(FilterVisible(all_elements))
          /\ last_found' = all_elements
          /\ AnnounceCurrentPage(Registry(all_elements), 0)

\* lines 469-474, an exception raised before line 462: the page counter and
\* the page size keep what they were (or stay unset)
AnnounceClickablesRaisesEarly ==
    /\ AnnounceReturn
    /\ last_spoken' = Speak(Say("error_identifying", << >>))
    /\ all_clickable_items' = << >>
    /\ clickable_items' = << >>
    /\ UNCHANGED <<current_page, paging_set, filtered_count, last_found>>

\* lines 469-474, an exception raised in line 467, after the store
AnnounceClickablesRaisesLate(found) ==
    /\ AnnounceReturn
    /\ last_spoken' = Speak(Say("error_identifying", << >>))
    /\ all_clickable_items' = << >>
    /\ clickable_items' = << >>
    /\ current_page' = 0
    /\ paging_set' = TRUE
    /\ \E all_elements \in found :
          /\ filtered_count' = Len(FilterVisible(all_elements))
          /\ last_found' = all_elements

(***************************************************************************)
(* crawl(): the input loop (lines 566-586, 872-875)                        *)
(***************************************************************************)
\* a clamp that compares with the number of pages, not with the last page
NextPageOffByOne(page, total_pages) ==
    IF page < total_pages THEN page + 1 ELSE page

\* lines 570-572: the page the empty line moves to
NextPage(page, total_pages) ==
    IF page < total_pages - 1 THEN page + 1 ELSE page

\* lines 568-574: the empty line advances the page, clamped
EmptyInput ==
    /\ UNCHANGED <<fetching, listener_pc, cycle>>
    /\ pc = "prompt"
    /\ IF ~paging_set
       THEN /\ pc' = "raised"
            /\ UNCHANGED <<regvars, last_spoken>>
       ELSE LET total_pages == TotalPages(Len(all_clickable_items))
                page == NextPage(current_page, total_pages)
            IN  /\ current_page' = page
                /\ AnnounceCurrentPage(all_clickable_items, page)
                /\ pc' = "prompt"
                /\ UNCHANGED <<all_clickable_items, paging_set, filtered_count,
                               last_found>>
    /\ UNCHANGED <<cont, sessvars, drvvars, llmvars, summary, fetch_branch, clickvars>>

\* lines 575-576 and 872-875: exit or quit ends the loop; teardown
ExitInput ==
    /\ UNCHANGED <<fetching, listener_pc, cycle>>
    /\ pc = "prompt"
    /\ interactive' = FALSE
    /\ listener_running' = FALSE
    /\ driver_open' = FALSE
    /\ pc' = "done"
    /\ UNCHANGED <<cont, regvars, drvvars, llmvars, summary, fetch_branch,
                   last_spoken, clickvars>>

\* lines 578-580: a line that is not all digits
NonNumericInput ==
    /\ UNCHANGED <<fetching, listener_pc, cycle>>
    /\ pc = "prompt"
    /\ last_spoken' = Speak(Say("enter_valid_number", << >>))
    /\ UNCHANGED <<pc, cont, regvars, sessvars, drvvars, llmvars, summary,
                   fetch_branch, clickvars>>

\* lines 578-582: a line for which isdigit() is true and int() raises
DigitLikeInput ==
    /\ UNCHANGED <<fetching, listener_pc, cycle>>
    /\ pc = "prompt"
    /\ pc' = "raised"
    /\ UNCHANGED <<cont, regvars, sessvars, drvvars, llmvars, summary, fetch_branch,
                   last_spoken, clickvars>>

\* lines 582-585: a number outside the current window
OutOfRangeInput(n) ==
    /\ UNCHANGED <<fetching, listener_pc, cycle>>
    /\ pc = "prompt"
    /\ (n - 1 < 0 \/ n - 1 >= Len(clickable_items))
    /\ last_spoken' = Speak(Say("invalid_option", << >>))
    /\ UNCHANGED <<pc, cont, regvars, sessvars, drvvars, llmvars, summary,
                   fetch_branch, clickvars>>

(***************************************************************************)
(* crawl(): an accepted option number (lines 587-650)                      *)
(***************************************************************************)
\* what lines 590-592 can read from the chosen element: its text (empty or
\* not), its tag, and its href, which is read only from an anchor
ElementInfos ==
    {[text |-> t, tag |-> "a", href |-> h] : t \in {"", "T"}, h \in {"NONE", "H"}}
    \cup {[text |-> t, tag |-> "button", href |-> "NONE"] : t \in {"", "T"}}

\* lines 582-650: the element's description and the baseline are saved
Choose(n) ==
    /\ UNCHANGED <<fetching, listener_pc>>
    /\ cycle' = NoCycle
    /\ pc = "prompt"
    /\ ~(n - 1 < 0 \/ n - 1 >= Len(clickable_items))
    /\ idx' = n - 1
    /\ advance_local' = 0
    /\ click_item' = clickable_items[n]
    /\ \E e \in ElementInfos :
          /\ element_text' = e.text
          /\ element_tag' = e.tag
          /\ element_href' = e.href
    /\ last_spoken' = Speak(Say("you_selected", << >>))
    /\ pre_click_snapshot' = BaseSnapshot
    /\ current_url' = cur_url
    /\ pc' = "click"
    /\ UNCHANGED <<cont, regvars, sessvars, drvvars, llmvars, summary, fetch_branch,
                   xpath_live, clicked, tried, method, content_changed,
                   post_click_snapshot, polls>>

\* lines 643-647: reading the element or the page raises
ChooseRaises(n) ==
    /\ UNCHANGED <<fetching, listener_pc, cycle>>
    /\ pc = "prompt"
    /\ ~(n - 1 < 0 \/ n - 1 >= Len(clickable_items))
    /\ idx' = n - 1
    /\ advance_local' = 0
    /\ click_item' = clickable_items[n]
    /\ last_spoken' = Speak(Say("could_not_find", << >>))
    /\ pc' = "announce"
    /\ UNCHANGED <<cont, regvars, sessvars, drvvars, llmvars, summary, fetch_branch,
                   xpath_live, element_tag, element_text, element_href,
                   current_url, clicked, tried, method, settlevars>>

(***************************************************************************)
(* crawl(): the click cascade (lines 652-720)                              *)
(***************************************************************************)
Outcome(c, t, m, r) == [clicked |-> c, tried |-> t, method |-> m, refreshed |-> r]

\* lines 674-694: the one re-location the if/elif chain selects
Relocation(text, href) ==
    IF text # "" THEN "text" ELSE IF href # "NONE" THEN "href" ELSE "xpath"

\* the sizes of the list of displayed anchors and buttons with text that
\* line 703 can build
RefreshSizes == {0, 2, refresh_keep + 1}

\* every way the cascade can end for a saved description.  live: the saved
\* XPath matches an element whose click succeeds.  refreshed is the size
\* of the list line 703 built, or -1 when line 704 was not reached.
CascadeOutcomes(text, href, i, live) ==
    LET reloc == Relocation(text, href)
        t3 == <<"direct", "script", reloc>>
        t4 == <<"direct", "script", reloc, "refresh">>
    IN  {Outcome(TRUE, <<"direct">>, "direct", -1),
         Outcome(TRUE, <<"direct", "script">>, "script", -1)}
        \cup (IF reloc # "xpath" \/ live THEN {Outcome(TRUE, t3, reloc, -1)} ELSE {})
        \cup (IF reloc # "xpath" \/ ~live
              THEN {Outcome(FALSE, t4, "none", -1)}
                   \cup UNION {
                          IF i < Min(m, refresh_keep)
                          THEN {Outcome(TRUE, t4, "refresh", m),
                                Outcome(FALSE, t4, "none", m)}
                          ELSE {Outcome(FALSE, t4, "none", m)}
                          : m \in RefreshSizes}
              ELSE {})

\* line 704: self.clickable_items = visible_elements[:5]
RefreshedItems(m) == [k \in 1..Min(m, refresh_keep) |-> RefreshedEl(k)]

\* a failed cascade that misses the `continue` of line 720
AfterCascadeFallsThrough(c) == "settle"

\* lines 716-722: where crawl() goes when the cascade has ended
AfterCascade(c) == IF c THEN "settle" ELSE "announce"

\* lines 652-720: the cascade, and lines 716-720 when no click succeeded.
\* A click that succeeded may have opened a window.  The saved description
\* is not read after line 706.
ClickCascade ==
    /\ UNCHANGED fetching
    /\ pc = "click"
    /\ \E live \in BOOLEAN :
       \E o \in CascadeOutcomes(element_text, element_href, idx, live) :
          /\ xpath_live' = live
          /\ clicked' = o.clicked
          /\ tried' = o.tried
          /\ method' = o.method
          /\ clickable_items' =
                IF o.refreshed >= 0 THEN RefreshedItems(o.refreshed)
                ELSE clickable_items
          /\ pc' = AfterCascade(o.clicked)
          /\ IF o.clicked
             THEN /\ \E opened \in BOOLEAN :
                        /\ n_windows' = IF opened
                                        THEN Min(n_windows + 1, MaxWindows)
                                        ELSE n_windows
                        /\ cycle' = Cycle(opened, FALSE, TRUE)
                  /\ listener_pc' = IF listener_pc = "found" THEN "found_old"
                                    ELSE listener_pc
                  /\ UNCHANGED last_spoken
             ELSE /\ last_spoken' = Speak(Say("could_not_click", << >>))
                  /\ UNCHANGED <<n_windows, cycle, listener_pc>>
    /\ idx' = 0
    /\ advance_local' = 0
    /\ click_item' = El(0)
    /\ element_tag' = "unset"
    /\ element_text' = "unset"
    /\ element_href' = "unset"
    /\ UNCHANGED <<cont, all_clickable_items, current_page, paging_set,
                   filtered_count, last_found, sessvars, cur_url, llmvars, summary,
                   fetch_branch, current_url, settlevars>>

(***************************************************************************)
(* crawl(): waiting for the page to settle (lines 722-828)                 *)
(***************************************************************************)
Abs(x) == IF x < 0 THEN -x ELSE x

\* the element-count signal tripping from the threshold on
ElementsChangedAtThreshold(pre, post) == Abs(pre.elementCount - post.elementCount) >= 5

\* lines 778-787: the four change signals
TextChanged(pre, post) == pre.bodyText # post.bodyText
ElementsChanged(pre, post) == Abs(pre.elementCount - post.elementCount) > 5
SizeChanged(pre, post) ==
    \/ Abs(pre.height - post.height) > 50
    \/ Abs(pre.width - post.width) > 50
VisibleElementsChanged(pre, post) == pre.visibleElements # post.visibleElements
SnapshotChanged(pre, post) ==
    \/ TextChanged(pre, post)
    \/ ElementsChanged(pre, post)
    \/ SizeChanged(pre, post)
    \/ VisibleElementsChanged(pre, post)

\* str.replace(old, '') on a text of words
RECURSIVE Replace(_, _)
Replace(s, old) ==
    IF old = << >> \/ Len(s) < Len(old) THEN s
    ELSE IF SubSeq(s, 1, Len(old)) = old
         THEN Replace(SubSeq(s, Len(old) + 1, Len(s)), old)
         ELSE << Head(s) >> \o Replace(Tail(s), old)

\* line 813: the text announced as new content
NewText(pre, post) == Strip(Replace(post.bodyText, pre.bodyText))

\* the outcome of the cascade is not read after line 716
CascadeLocalsDead ==
    /\ xpath_live' = FALSE
    /\ clicked' = FALSE
    /\ tried' = << >>
    /\ method' = "none"

\* the baseline, the recorded URL and the loop's locals are not read after
\* line 824
SettleLocalsDead ==
    /\ cycle' = Cycle(FALSE, FALSE, cycle.stale)
    /\ content_changed' = FALSE
    /\ pre_click_snapshot' = NoSnapshot
    /\ current_url' = "unset"
    /\ polls' = 0

\* lines 723-745: the window check, then the wait for a URL change; u is
\* the URL the browser shows when the wait ends
SettleStart ==
    /\ UNCHANGED <<fetching, listener_pc, cycle>>
    /\ pc = "settle"
    /\ \E u \in Urls :
          /\ cur_url' = u
          /\ content_changed' = (n_windows > 1 \/ u # current_url)
          /\ pc' = IF u # current_url THEN "settled" ELSE "poll"
    /\ polls' = 0
    /\ CascadeLocalsDead
    /\ UNCHANGED <<cont, regvars, sessvars, n_windows, llmvars, summary,
                   fetch_branch, last_spoken, idx, advance_local, click_item,
                   element_tag,
                   element_text, element_href, current_url, pre_click_snapshot,
                   post_click_snapshot>>

\* lines 753-799: one iteration of the polling loop
Poll(snaps) ==
    /\ UNCHANGED <<fetching, listener_pc>>
    /\ cycle' = [cycle EXCEPT !.snapshot_taken = TRUE]
    /\ pc = "poll"
    /\ ~content_changed
    /\ polls < MaxPolls
    /\ \E snap \in snaps :
          /\ post_click_snapshot' = snap
          /\ IF SnapshotChanged(pre_click_snapshot, snap)
             THEN /\ content_changed' = TRUE
                  /\ pc' = "settled"
                  /\ UNCHANGED polls
             ELSE /\ polls' = polls + 1
                  /\ UNCHANGED <<pc, content_changed>>
    /\ UNCHANGED <<cont, regvars, sessvars, drvvars, llmvars, summary, fetch_branch,
                   last_spoken, idx, advance_local, click_item, xpath_live,
                   element_tag,
                   element_text, element_href, current_url, clicked, tried,
                   method, pre_click_snapshot>>

\* a polling loop left only once a change was declared
PollEndOnChangeOnly ==
    /\ UNCHANGED <<fetching, listener_pc, cycle>>
    /\ pc = "poll"
    /\ content_changed
    /\ \E u \in Urls : cur_url' = u
    /\ pc' = "settled"
    /\ UNCHANGED <<cont, regvars, sessvars, n_windows, llmvars, summary,
                   fetch_branch, last_spoken, clickvars>>

\* line 753: the loop is not entered, or its deadline has passed; u is the
\* URL line 807 reads, which a slow navigation may have changed by then
PollEnd ==
    /\ UNCHANGED <<fetching, listener_pc, cycle>>
    /\ pc = "poll"
    /\ content_changed \/ polls >= 1
    /\ \E u \in Urls : cur_url' = u
    /\ pc' = "settled"
    /\ UNCHANGED <<cont, regvars, sessvars, n_windows, llmvars, summary,
                   fetch_branch, last_spoken, clickvars>>

\* lines 806-824: the same-URL shortcut, or the announcement of a full
\* analysis; line 813 raises when post_click_snapshot is not bound
AfterSettle ==
    /\ UNCHANGED <<fetching, listener_pc>>
    /\ pc = "settled"
    /\ IF content_changed /\ cur_url = current_url
       THEN IF ~post_click_snapshot.bound
            THEN /\ last_spoken' = Speak(Say("navigation_error", << >>))
                 /\ pc' = "refetch"
            ELSE /\ last_spoken' =
                       IF NewText(pre_click_snapshot, post_click_snapshot) # << >>
                       THEN Speak(Say("new_content",
                                      NewText(pre_click_snapshot, post_click_snapshot)))
                       ELSE last_spoken
                 /\ pc' = "announce"
       ELSE /\ last_spoken' =
                  Speak(Say(IF cur_url # current_url THEN "page_changed"
                            ELSE "still_on", << >>))
            /\ pc' = "refetch"
    /\ SettleLocalsDead
    /\ UNCHANGED <<cont, regvars, sessvars, drvvars, llmvars, summary, fetch_branch,
                   idx, advance_local, click_item, xpath_live, element_tag,
                   element_text,
                   element_href, clicked, tried, method, post_click_snapshot>>

\* lines 826-828: a browser call of lines 724-824 raises
NavigationDetectionRaises ==
    /\ UNCHANGED <<fetching, listener_pc>>
    /\ pc \in {"settle", "poll", "settled"}
    /\ last_spoken' = Speak(Say("navigation_error", << >>))
    /\ pc' = "refetch"
    /\ CascadeLocalsDead
    /\ SettleLocalsDead
    /\ UNCHANGED <<cont, regvars, sessvars, drvvars, llmvars, summary, fetch_branch,
                   idx, advance_local, click_item, element_tag, element_text,
                   element_href,
                   post_click_snapshot>>

(***************************************************************************)
(* crawl(): analysis after a click (lines 830-870)                         *)
(***************************************************************************)
\* lines 833-836: fetch the current page and call the LLM
Refetch ==
    /\ UNCHANGED <<fetching, listener_pc, cycle>>
    /\ pc = "refetch"
    /\ FetchDynamic(cur_url, "", MainPages(PostClickHtmlLens))
    /\ llm_sent' = << >>
    /\ pc' = "llm"
    /\ cont' = "post_sum"
    /\ UNCHANGED <<regvars, sessvars, result, summary, last_spoken, clickvars>>

\* lines 837-866: clean and speak the summary; whatever raises is caught
PostSummarize ==
    /\ UNCHANGED <<fetching, listener_pc, cycle>>
    /\ pc = "post_sum"
    /\ last_spoken' =
          IF result.dict /\ GetSummary(result, "") \in SummaryNames
          THEN Speak(Say("summary", NormalizeSummary(GetSummary(result, ""))))
          ELSE IF ~result.dict \/ CleanSummary(GetSummary(result, "")) = "RAISES"
          THEN Speak(Say("error_analyzing", << >>))
          ELSE Speak(Say(CleanSummary(GetSummary(result, "")), << >>))
    /\ result' = NoResult
    /\ llm_sent' = << >>
    /\ pc' = "announce"
    /\ UNCHANGED <<cont, regvars, sessvars, drvvars, html, summary, fetch_branch,
                   clickvars>>

Next ==
    \/ CrawlStart
    \/ LLMReply
    \/ LLMSizeError
    \/ LLMApiError
    \/ InitAfterFirstAnalysis
    \/ InitAfterSecondAnalysis
    \/ InitSummarize
    \/ AnnounceClickables(MainDiscoveries)
    \/ AnnounceClickablesRaisesEarly
    \/ AnnounceClickablesRaisesLate(MainDiscoveries)
    \/ EmptyInput
    \/ ExitInput
    \/ NonNumericInput
    \/ DigitLikeInput
    \/ \E n \in Numbers : OutOfRangeInput(n)
    \/ \E n \in Numbers : Choose(n)
    \/ \E n \in Numbers : ChooseRaises(n)
    \/ ClickCascade
    \/ SettleStart
    \/ Poll(PostSnapshots)
    \/ PollEnd
    \/ AfterSettle
    \/ NavigationDetectionRaises
    \/ Refetch
    \/ PostSummarize

Spec == Init /\ [][Next]_vars

(***************************************************************************)
(* The settle specification: crawl() from a click that succeeded (line     *)
(* 722) to the next prompt.                                                *)
(***************************************************************************)
\* what announce_clickables finds on the page after the click
SettleDiscoveries == {PageElements(n, "distinct") : n \in {0, 3}}

\* a page of three entries was announced, its first entry chosen and
\* clicked directly; the click may have opened a window
InitSettle ==
    /\ pc = "settle"
    /\ cont = "init1"
    /\ interactive = TRUE
    /\ clickable_items = [k \in 1..3 |-> El(k)]
    /\ all_clickable_items = Registry(PageElements(3, "distinct"))
    /\ current_page = 0
    /\ paging_set = TRUE
    /\ filtered_count = 3
    /\ last_found = PageElements(3, "distinct")
    /\ listener_running = TRUE
    /\ driver_open = TRUE
    /\ cur_url \in Urls
    /\ n_windows \in 1..MaxWindows
    /\ cycle \in {Cycle(o, FALSE, TRUE) : o \in IF n_windows > 1 THEN BOOLEAN ELSE {FALSE}}
    /\ html = << >>
    /\ llm_sent = << >>
    /\ result = NoResult
    /\ summary = ""
    /\ fetch_branch = "none"
    /\ fetching = NoFetch
    /\ listener_pc = "idle"
    /\ last_spoken = Say("you_selected", << >>)
    /\ idx = 0
    /\ advance_local = 0
    /\ click_item = El(0)
    /\ xpath_live = FALSE
    /\ element_tag = "unset"
    /\ element_text = "unset"
    /\ element_href = "unset"
    /\ current_url = cur_url
    /\ clicked = TRUE
    /\ tried = <<"direct">>
    /\ method = "direct"
    /\ content_changed = FALSE
    /\ pre_click_snapshot = BaseSnapshot
    /\ post_click_snapshot = NoSnapshot
    /\ polls = 0

NextSettle ==
    \/ SettleStart
    \/ Poll(PostSnapshots)
    \/ PollEnd
    \/ AfterSettle
    \/ NavigationDetectionRaises
    \/ Refetch
    \/ LLMReply
    \/ LLMSizeError
    \/ LLMApiError
    \/ PostSummarize
    \/ AnnounceClickables(SettleDiscoveries)
    \/ AnnounceClickablesRaisesEarly
    \/ AnnounceClickablesRaisesLate(SettleDiscoveries)

\* The steps crawl() takes on its own when no call raises and the LLM
\* answers: every wait in them is bounded (lines 736, 750 and the sleeps),
\* so the thread running crawl() does not stay before an enabled one for
\* ever.  The failures are not forced.
SettleStep ==
    \/ SettleStart
    \/ Poll(PostSnapshots)
    \/ PollEnd
    \/ AfterSettle
    \/ Refetch
    \/ LLMReply
    \/ PostSummarize
    \/ AnnounceClickables(SettleDiscoveries)

FairSettle == InitSettle /\ [][NextSettle]_vars /\ WF_vars(SettleStep)


(***************************************************************************)
(* The registry specification: crawl() from its first call of              *)
(* announce_clickables (line 564) on, with every short list of raw         *)
(* elements as the query's result and with the user paging and mistyping.  *)
(* No element is chosen here.                                              *)
(***************************************************************************)
\* an identifier of short_id_len characters followed by c
LongName(c) == Rep("a", short_id_len) \o << c >>

\* the kinds of raw element: texts that differ in case or in surrounding
\* blanks only, identifiers taken from aria-label, title and value,
\* identifiers that agree on their first short_id_len characters, an element
\* that is not displayed, one that is stale, and one without any identifier
PoolKinds == {"a", "A", "b_blanks", "aria_a", "title_b", "value_A",
              "long_x", "long_y", "hidden", "stale", "anonymous"}
PoolElement(h, kind) ==
    CASE kind = "a" -> RawEl(h, TRUE, <<"a">>, << >>, << >>, << >>, FALSE)
      [] kind = "A" -> RawEl(h, TRUE, <<"A">>, <<"b">>, << >>, << >>, FALSE)
      [] kind = "b_blanks" -> RawEl(h, TRUE, <<" ", "b", " ">>, << >>, << >>, << >>, FALSE)
      [] kind = "aria_a" -> RawEl(h, TRUE, <<" ">>, <<"a">>, <<"b">>, << >>, FALSE)
      [] kind = "title_b" -> RawEl(h, TRUE, << >>, << >>, <<"b">>, <<"a">>, FALSE)
      [] kind = "value_A" -> RawEl(h, TRUE, << >>, << >>, << >>, <<"A">>, FALSE)
      [] kind = "long_x" -> RawEl(h, TRUE, LongName("x"), << >>, << >>, << >>, FALSE)
      [] kind = "long_y" -> RawEl(h, TRUE, LongName("y"), << >>, << >>, << >>, FALSE)
      [] kind = "hidden" -> RawEl(h, FALSE, <<"a">>, << >>, << >>, << >>, FALSE)
      [] kind = "stale" -> RawEl(h, TRUE, <<"a">>, << >>, << >>, << >>, TRUE)
      [] OTHER -> RawEl(h, TRUE, << >>, << >>, << >>, << >>, FALSE)
RawList(kinds) == [k \in 1..Len(kinds) |-> PoolElement(El(k), kinds[k])]

\* every list of at most MaxRaw raw elements, and every number of distinct
\* elements up to MaxFound
BrowseDiscoveries ==
    {PageElements(n, "distinct") : n \in 0..MaxFound}
    \cup {RawList(kinds) : kinds \in UNION {[1..n -> PoolKinds] : n \in 0..MaxRaw}}

\* line 564 is reached: the start page is loaded, its summary is spoken
InitBrowse ==
    /\ pc = "announce0"
    /\ cont = "init1"
    /\ interactive = FALSE
    /\ clickable_items = << >>
    /\ all_clickable_items = << >>
    /\ current_page = 0
    /\ paging_set = FALSE
    /\ filtered_count = 0
    /\ last_found = << >>
    /\ listener_running = TRUE
    /\ driver_open = TRUE
    /\ cur_url = StartUrl
    /\ n_windows = 1
    /\ html = << >>
    /\ llm_sent = << >>
    /\ result = NoResult
    /\ summary = ""
    /\ fetch_branch = "none"
    /\ fetching = NoFetch
    /\ listener_pc = "idle"
    /\ cycle = NoCycle
    /\ last_spoken = Say("plain", << >>)
    /\ idx = 0
    /\ advance_local = 0
    /\ click_item = El(0)
    /\ xpath_live = FALSE
    /\ element_tag = "unset"
    /\ element_text = "unset"
    /\ element_href = "unset"
    /\ current_url = "unset"
    /\ clicked = FALSE
    /\ tried = << >>
    /\ method = "none"
    /\ content_changed = FALSE
    /\ pre_click_snapshot = NoSnapshot
    /\ post_click_snapshot = NoSnapshot
    /\ polls = 0

NextBrowse ==
    \/ AnnounceClickables(BrowseDiscoveries)
    \/ AnnounceClickablesRaisesEarly
    \/ AnnounceClickablesRaisesLate(BrowseDiscoveries)
    \/ EmptyInput
    \/ ExitInput
    \/ NonNumericInput
    \/ DigitLikeInput
    \/ \E n \in Numbers : OutOfRangeInput(n)

SpecBrowse == InitBrowse /\ [][NextBrowse]_vars

(***************************************************************************)
(* The key listener (lines 51-56, 476-481).  pynput runs the callback on   *)
(* the listener's thread, one key at a time, while crawl() runs on the     *)
(* main thread: a callback that calls announce_clickables is under way     *)
(* from the test of line 478 until announce_clickables returns.            *)
(***************************************************************************)
Keys == {"space", "other"}

\* the test without the interactive flag
TriggersAnyTime(key) == key = "space"

\* line 478: the test the callback makes
Triggers(key) == interactive /\ key = "space"

\* lines 476-481: a key is pressed while the listener runs and is idle
OnPressGlobal(key) ==
    /\ listener_running
    /\ listener_pc = "idle"
    /\ listener_pc' = IF Triggers(key) THEN "announcing" ELSE "idle"
    /\ UNCHANGED <<pc, cont, regvars, sessvars, drvvars, llmvars, summary,
                   fetch_branch, fetching, cycle, last_spoken, clickvars>>

\* what find_elements gives the listener's thread: nothing once the browser
\* is quit (the call raises and line 421 keeps the empty list)
ListenerFound(found) == IF driver_open THEN found ELSE {<< >>}

\* lines 390-422 on the listener's thread: the page is queried.  The list is
\* the thread's local all_elements; listener_pc becomes "found_old" when a
\* click of crawl() succeeds while the thread holds it (ClickCascade).
ListenerQuery ==
    /\ listener_pc = "announcing"
    /\ listener_pc' = "found"
    /\ UNCHANGED <<pc, cont, regvars, sessvars, drvvars, llmvars, summary,
                   fetch_branch, fetching, cycle, last_spoken, clickvars>>

\* lines 425-465 on the listener's thread: the list found is filtered,
\* deduplicated and stored with page 0.  Nothing keeps crawl() from running
\* before this or between this and the announcement of line 467.
ListenerStore(found) ==
    /\ listener_pc \in {"found", "found_old"}
    /\ listener_pc' = "stored"
    /\ cycle' = IF listener_pc = "found_old"
                THEN [cycle EXCEPT !.stale = TRUE]
                ELSE cycle
    /\ \E all_elements \in ListenerFound(found) :
          /\ all_clickable_items' = Registry(all_elements)
          /\ current_page' = 0
          /\ paging_set' = TRUE
          /\ filtered_count' = Len(FilterVisible(all_elements))
          /\ last_found' = all_elements
    /\ UNCHANGED <<pc, cont, clickable_items, last_spoken, sessvars, drvvars,
                   llmvars, summary, fetch_branch, fetching, clickvars>>

\* line 467 on the listener's thread: _announce_current_page reads the
\* registry and the page counter as they are now
ListenerAnnouncePage ==
    /\ listener_pc = "stored"
    /\ listener_pc' = "idle"
    /\ AnnounceCurrentPage(all_clickable_items, current_page)
    /\ UNCHANGED <<pc, cont, all_clickable_items, current_page, paging_set,
                   filtered_count, last_found, sessvars, drvvars, llmvars, summary,
                   fetch_branch, fetching, cycle, clickvars>>

\* lines 469-474 on the listener's thread: announce_clickables catches an
\* exception raised before line 462
ListenerAnnounceRaises ==
    /\ listener_pc \in {"announcing", "found", "found_old"}
    /\ listener_pc' = "idle"
    /\ last_spoken' = Speak(Say("error_identifying", << >>))
    /\ all_clickable_items' = << >>
    /\ clickable_items' = << >>
    /\ UNCHANGED <<pc, cont, current_page, paging_set, filtered_count, last_found,
                   sessvars,
                   drvvars, llmvars, summary, fetch_branch, fetching, cycle,
                   clickvars>>

(***************************************************************************)
(* The key specification: crawl() from its first announce_clickables       *)
(* (line 564) on, with the key listener beside it.                         *)
(***************************************************************************)
\* what announce_clickables finds: no element, or two windows of elements
KeyDiscoveries == {PageElements(n, "distinct") : n \in {0, 8}}

NextKeys ==
    \/ \E key \in Keys : OnPressGlobal(key)
    \/ ListenerQuery
    \/ ListenerStore(KeyDiscoveries)
    \/ ListenerAnnouncePage
    \/ ListenerAnnounceRaises
    \/ AnnounceClickables(KeyDiscoveries)
    \/ AnnounceClickablesRaisesEarly
    \/ EmptyInput
    \/ ExitInput
    \/ \E n \in Numbers : Choose(n)
    \/ ClickCascade
    \/ SettleStart
    \/ Poll(PostSnapshots)
    \/ PollEnd
    \/ AfterSettle
    \/ Refetch
    \/ LLMReply
    \/ PostSummarize

SpecKeys == InitBrowse /\ [][NextKeys]_vars

(***************************************************************************)
(* The advance specification: the empty line of lines 568-574 and the      *)
(* listener's announce_clickables, each in the steps in which it reads and *)
(* writes self.all_clickable_items and self.current_page.  Nothing in the  *)
(* code orders the steps of one thread with those of the other.            *)
(***************************************************************************)
\* line 570: total_pages is computed from the registry as it is now
AdvanceReadTotal ==
    /\ pc = "prompt"
    /\ IF ~paging_set
       THEN /\ pc' = "raised"
            /\ advance_local' = 0
       ELSE /\ pc' = "advance_compare"
            /\ advance_local' = TotalPages(Len(all_clickable_items))
    /\ UNCHANGED <<cont, regvars, sessvars, drvvars, llmvars, summary, fetch_branch,
                   fetching, listener_pc, cycle, last_spoken, idx, click_item,
                   xpath_live, element_tag, element_text, element_href,
                   current_url, clicked, tried, method, settlevars>>

\* line 571: the page counter as it is now is compared with total_pages - 1
AdvanceCompare ==
    /\ pc = "advance_compare"
    /\ pc' = IF current_page < advance_local - 1 THEN "advance_load"
             ELSE "advance_announce"
    /\ advance_local' = 0
    /\ UNCHANGED <<cont, regvars, sessvars, drvvars, llmvars, summary, fetch_branch,
                   fetching, listener_pc, cycle, last_spoken, idx, click_item,
                   xpath_live, element_tag, element_text, element_href,
                   current_url, clicked, tried, method, settlevars>>

\* line 572, self.current_page += 1: the counter is read ...
AdvanceLoad ==
    /\ pc = "advance_load"
    /\ pc' = "advance_store"
    /\ advance_local' = current_page
    /\ UNCHANGED <<cont, regvars, sessvars, drvvars, llmvars, summary, fetch_branch,
                   fetching, listener_pc, cycle, last_spoken, idx, click_item,
                   xpath_live, element_tag, element_text, element_href,
                   current_url, clicked, tried, method, settlevars>>

\* ... and the value read, plus one, is written
AdvanceStore ==
    /\ pc = "advance_store"
    /\ pc' = "advance_announce"
    /\ current_page' = advance_local + 1
    /\ advance_local' = 0
    /\ UNCHANGED <<cont, clickable_items, all_clickable_items, paging_set,
                   filtered_count, last_found, sessvars, drvvars, llmvars, summary,
                   fetch_branch, fetching, listener_pc, cycle, last_spoken, idx,
                   click_item, xpath_live, element_tag, element_text, element_href,
                   current_url, clicked, tried, method, settlevars>>

\* line 573: _announce_current_page on the registry and counter as they are
AdvanceAnnounce ==
    /\ pc = "advance_announce"
    /\ pc' = "prompt"
    /\ AnnounceCurrentPage(all_clickable_items, current_page)
    /\ UNCHANGED <<cont, all_clickable_items, current_page, paging_set,
                   filtered_count, last_found, sessvars, drvvars, llmvars, summary,
                   fetch_branch, fetching, listener_pc, cycle, clickvars>>

\* lines 425-462 on the listener's thread: the registry is stored
ListenerStoreRegistry(found) ==
    /\ listener_pc = "found"
    /\ listener_pc' = "registry_stored"
    /\ \E all_elements \in ListenerFound(found) :
          /\ all_clickable_items' = Registry(all_elements)
          /\ filtered_count' = Len(FilterVisible(all_elements))
          /\ last_found' = all_elements
    /\ UNCHANGED <<pc, cont, clickable_items, current_page, paging_set, last_spoken,
                   sessvars, drvvars, llmvars, summary, fetch_branch, fetching,
                   cycle, clickvars>>

\* lines 463-465 on the listener's thread: the page counter is reset
ListenerResetPage ==
    /\ listener_pc = "registry_stored"
    /\ listener_pc' = "stored"
    /\ current_page' = 0
    /\ paging_set' = TRUE
    /\ UNCHANGED <<pc, cont, clickable_items, all_clickable_items, filtered_count,
                   last_found, last_spoken, sessvars, drvvars, llmvars, summary,
                   fetch_branch, fetching, cycle, clickvars>>

\* what the page holds when it is queried: no element, or one, two or three
\* windows of elements
AdvanceDiscoveries == {PageElements(n, "distinct") : n \in {0, 3, 8, MaxFound}}

NextAdvance ==
    \/ AnnounceClickables(AdvanceDiscoveries)
    \/ AdvanceReadTotal
    \/ AdvanceCompare
    \/ AdvanceLoad
    \/ AdvanceStore
    \/ AdvanceAnnounce
    \/ \E key \in Keys : OnPressGlobal(key)
    \/ ListenerQuery
    \/ ListenerStoreRegistry(AdvanceDiscoveries)
    \/ ListenerResetPage
    \/ ListenerAnnouncePage

SpecAdvance == InitBrowse /\ [][NextAdvance]_vars

(***************************************************************************)
(* The analysis specification: one call of analyze_with_llm on fragments   *)
(* of lengths at and around the limit, made of one or several runs.        *)
(***************************************************************************)
AnalyzeInputs ==
    {Text("page_source", n) :
        n \in {0, 1, 40000, 59999, 60000, 60001, 60027, 80000, 120000}}
    \cup {Text("a", 30000) \o Text("b", 30000),
          Text("a", 30000) \o Text("b", 30001),
          Text("a", 40000) \o Text("b", 20001),
          Text("a", 50000) \o Text("b", 50000) \o Text("c", 10),
          Text("a", 10) \o Text("b", 39990) \o Text("c", 10) \o Text("d", 20000)}

InitAnalyze ==
    /\ pc = "llm"
    /\ cont = "analyzed"
    /\ interactive = FALSE
    /\ clickable_items = << >>
    /\ all_clickable_items = << >>
    /\ current_page = 0
    /\ paging_set = FALSE
    /\ filtered_count = 0
    /\ last_found = << >>
    /\ listener_running = TRUE
    /\ driver_open = TRUE
    /\ cur_url = StartUrl
    /\ n_windows = 1
    /\ html \in AnalyzeInputs
    /\ llm_sent = << >>
    /\ result = NoResult
    /\ summary = ""
    /\ fetch_branch = "none"
    /\ fetching = NoFetch
    /\ listener_pc = "idle"
    /\ cycle = NoCycle
    /\ last_spoken = Say("plain", << >>)
    /\ idx = 0
    /\ advance_local = 0
    /\ click_item = El(0)
    /\ xpath_live = FALSE
    /\ element_tag = "unset"
    /\ element_text = "unset"
    /\ element_href = "unset"
    /\ current_url = "unset"
    /\ clicked = FALSE
    /\ tried = << >>
    /\ method = "none"
    /\ content_changed = FALSE
    /\ pre_click_snapshot = NoSnapshot
    /\ post_click_snapshot = NoSnapshot
    /\ polls = 0

NextAnalyze ==
    \/ LLMReply
    \/ LLMSizeError
    \/ LLMApiError

SpecAnalyze == InitAnalyze /\ [][NextAnalyze]_vars

(***************************************************************************)
(* The summary specification: the initial and the post-click normalization *)
(* of a summary of the table.                                              *)
(***************************************************************************)
InitSummary ==
    /\ \E s \in SummaryNames :
          \/ pc = "init_sum" /\ summary = s /\ result = NoResult
          \/ pc = "post_sum" /\ summary = "" /\ result = DictResult(s, "")
    /\ cont = "none"
    /\ interactive = FALSE
    /\ clickable_items = << >>
    /\ all_clickable_items = << >>
    /\ current_page = 0
    /\ paging_set = FALSE
    /\ filtered_count = 0
    /\ last_found = << >>
    /\ listener_running = TRUE
    /\ driver_open = TRUE
    /\ cur_url = StartUrl
    /\ n_windows = 1
    /\ html = << >>
    /\ llm_sent = << >>
    /\ fetch_branch = "none"
    /\ fetching = NoFetch
    /\ listener_pc = "idle"
    /\ cycle = NoCycle
    /\ last_spoken = Say("visiting", << >>)
    /\ idx = 0
    /\ advance_local = 0
    /\ click_item = El(0)
    /\ xpath_live = FALSE
    /\ element_tag = "unset"
    /\ element_text = "unset"
    /\ element_href = "unset"
    /\ current_url = "unset"
    /\ clicked = FALSE
    /\ tried = << >>
    /\ method = "none"
    /\ content_changed = FALSE
    /\ pre_click_snapshot = NoSnapshot
    /\ post_click_snapshot = NoSnapshot
    /\ polls = 0

NextSummary ==
    \/ InitSummarize
    \/ PostSummarize

SpecSummary == InitSummary /\ [][NextSummary]_vars

(***************************************************************************)
(* The polling specification: the DOM polling loop after a click that did  *)
(* not change the URL, on snapshots at and around the thresholds.          *)
(***************************************************************************)
\* the snapshots a poll can read: each measure below, at and above the
\* baseline by the threshold and by one more
PollSnapshots ==
    {Snapshot(t, n, h, w, v) :
        t \in {<<"x">>, <<"x", "y">>},
        n \in {94, 95, 100, 105, 106},
        h \in {949, 950, 1000, 1050, 1051},
        w \in {749, 750, 800, 850, 851},
        v \in {9, 10, 11}}

InitPoll ==
    /\ pc = "poll"
    /\ cont = "none"
    /\ interactive = TRUE
    /\ clickable_items = << >>
    /\ all_clickable_items = << >>
    /\ current_page = 0
    /\ paging_set = FALSE
    /\ filtered_count = 0
    /\ last_found = << >>
    /\ listener_running = TRUE
    /\ driver_open = TRUE
    /\ cur_url = StartUrl
    /\ n_windows = 1
    /\ html = << >>
    /\ llm_sent = << >>
    /\ result = NoResult
    /\ summary = ""
    /\ fetch_branch = "none"
    /\ fetching = NoFetch
    /\ listener_pc = "idle"
    /\ cycle = Cycle(FALSE, FALSE, TRUE)
    /\ last_spoken = Say("you_selected", << >>)
    /\ idx = 0
    /\ advance_local = 0
    /\ click_item = El(0)
    /\ xpath_live = FALSE
    /\ element_tag = "unset"
    /\ element_text = "unset"
    /\ element_href = "unset"
    /\ current_url = StartUrl
    /\ clicked = FALSE
    /\ tried = << >>
    /\ method = "none"
    /\ content_changed = FALSE
    /\ pre_click_snapshot = BaseSnapshot
    /\ post_click_snapshot = NoSnapshot
    /\ polls = 0

NextPoll ==
    \/ Poll(PollSnapshots)
    \/ PollEnd

SpecPoll == InitPoll /\ [][NextPoll]_vars

(***************************************************************************)
(* The extraction specification: one call of fetch_dynamic on a page whose *)
(* failures and content containers are drawn freely.                       *)
(***************************************************************************)
\* what a content selector can return: a failing lookup, no match, matches
\* at and around the threshold, several matches of different lengths, a
\* match whose outerHTML cannot be read
SelectorResults ==
    {SelectorResult(TRUE, << >>)}
    \cup {SelectorResult(FALSE, m) :
            m \in {<< >>, <<100>>, <<101>>, <<150, 300>>, <<300, 150>>,
                   <<-1, 100, 150>>}}

\* the pages fetch_dynamic is called on
FetchPages ==
    {[load_raises |-> l, script_raises |-> e, body_len |-> b,
      special_raises |-> s, containers |-> <<c1, c2>>, clean |-> k,
      click_raises |-> x, source_raises |-> r,
      structured_len |-> 400, cleaned_len |-> 5000, source_len |-> 9000] :
        l \in BOOLEAN, e \in BOOLEAN, b \in {0, 99, 100}, s \in BOOLEAN,
        c1 \in SelectorResults, c2 \in SelectorResults,
        k \in {"html", "none", "raises"}, x \in BOOLEAN, r \in BOOLEAN}

InitFetch ==
    /\ pc = "fetch"
    /\ cont = "none"
    /\ interactive = FALSE
    /\ clickable_items = << >>
    /\ all_clickable_items = << >>
    /\ current_page = 0
    /\ paging_set = FALSE
    /\ filtered_count = 0
    /\ last_found = << >>
    /\ listener_running = TRUE
    /\ driver_open = TRUE
    /\ cur_url = StartUrl
    /\ n_windows = 1
    /\ html = << >>
    /\ llm_sent = << >>
    /\ result = NoResult
    /\ summary = ""
    /\ fetch_branch = "none"
    /\ fetching \in [url : Urls, click_selector : {"", "#more"}, page : FetchPages]
    /\ listener_pc = "idle"
    /\ cycle = NoCycle
    /\ last_spoken = Say("plain", << >>)
    /\ idx = 0
    /\ advance_local = 0
    /\ click_item = El(0)
    /\ xpath_live = FALSE
    /\ element_tag = "unset"
    /\ element_text = "unset"
    /\ element_href = "unset"
    /\ current_url = "unset"
    /\ clicked = FALSE
    /\ tried = << >>
    /\ method = "none"
    /\ content_changed = FALSE
    /\ pre_click_snapshot = NoSnapshot
    /\ post_click_snapshot = NoSnapshot
    /\ polls = 0

\* fetch_dynamic(url, click_selector) returns, or an exception leaves it
FetchCall ==
    /\ pc = "fetch"
    /\ FetchDynamic(fetching.url, fetching.click_selector, {fetching.page})
    /\ pc' = IF fetch_branch' = "raises" THEN "raised" ELSE "fetch_return"
    /\ UNCHANGED <<cont, regvars, sessvars, llm_sent, result, summary, fetching,
                   listener_pc, cycle,
                   last_spoken, clickvars, settlevars>>

NextFetch == FetchCall

SpecFetch == InitFetch /\ [][NextFetch]_vars

(***************************************************************************)
(* Properties                                                              *)
(***************************************************************************)

\* C1: crawl() ends only on exit or quit: no exception escapes it, neither
\* in the initial load-and-summarize phase nor in the input loop, whatever
\* the page, the LLM and the user supply.
C1_NoExceptionEscapes ==
    pc # "raised"

\* C2: one call of analyze_with_llm issues at most two requests; a request
\* is followed by another only when it failed with a size-limit error; when
\* the second request fails with a size-limit error too the degraded result
\* is returned; a request that fails with another error ends the call with
\* the canned error result.
C2_AtMostTwoRequests ==
    /\ Len(llm_sent) <= 2
    /\ \A i \in 1..(Len(llm_sent) - 1) : llm_sent[i].outcome = "size"
    /\ (pc = cont /\ Len(llm_sent) = 2 /\ llm_sent[2].outcome = "size")
          => result = DegradedResult
    /\ (pc = cont /\ llm_sent # << >> /\ llm_sent[Len(llm_sent)].outcome = "api")
          => result = ErrorResult

\* C3: the fragment a retry request carries, truncation marker included, is
\* at most 30,000 characters long.
C3_RetryFragmentWithinLimit ==
    (pc = "llm" /\ llm_sent # << >>) => HLen(html) <= retry_threshold

\* C4: when the direct click raised and the saved XPath still matches a
\* live element, the cascade ends with clicked = true, and by the XPath
\* re-location when the script click and the text and href re-locations did
\* not click.
C4_XPathFallbackClicks ==
    (pc \in {"settle", "announce"} /\ tried # << >> /\ method # "direct" /\ xpath_live)
       => /\ clicked
          /\ method \notin {"script", "text", "href"} => method = "xpath"

\* C5: the strategies are attempted in the order direct, script, text, href,
\* xpath, refresh; the cascade stops at the first strategy that does not
\* raise; the click is reported as failed only when all six were attempted.
C5_SixStrategiesInOrder ==
    (pc \in {"settle", "announce"} /\ tried # << >>)
       => /\ tried = SubSeq(<<"direct", "script", "text", "href", "xpath", "refresh">>,
                            1, Len(tried))
          /\ clicked => method = tried[Len(tried)]
          /\ ~clicked => Len(tried) = 6

\* C6 as stated: every empty input that is processed leaves current_page
\* <= ceil(N/5) - 1, and leaves it unchanged at the last page; with N = 8
\* the counter goes 0, 1, 1.
C6_EmptyInputClampedAnyN ==
    [][(EmptyInput /\ pc' = "prompt") =>
          LET n == Len(all_clickable_items)
              last == TotalPages(n) - 1
          IN  /\ current_page' <= last
              /\ current_page = last => current_page' = current_page
              /\ n = 8 => current_page' = 1
      ]_vars

\* C6 as amended: with a registry of N >= 1 items every empty input returns
\* to the prompt with current_page <= ceil(N/5) - 1; at the last page it
\* leaves current_page and the registry unchanged and speaks that page's
\* announcement again; with N = 8 the counter goes 0, 1, 1.  With an empty
\* registry an empty input that is processed leaves current_page unchanged.
C6_EmptyInputClamped ==
    [][EmptyInput =>
          LET n == Len(all_clickable_items)
              last == TotalPages(n) - 1
          IN  /\ n >= 1 =>
                    /\ pc' = "prompt"
                    /\ current_page' <= last
                    /\ current_page < last => current_page' = current_page + 1
                    /\ current_page = last =>
                          /\ current_page' = current_page
                          /\ all_clickable_items' = all_clickable_items
                          /\ last_spoken' = PageAnnouncement(all_clickable_items, last)
              /\ n = 8 => current_page' = 1
              /\ (n = 0 /\ pc' = "prompt") => current_page' = current_page
      ]_vars

\* the counter of an 8-item registry stands at its last page, whose
\* announcement was the last thing spoken
C6_Witness ==
    /\ pc = "prompt"
    /\ Len(all_clickable_items) = 8
    /\ current_page = 1
    /\ last_spoken = PageAnnouncement(all_clickable_items, 1)

\* C7: in every state the main loop reaches, a non-empty registry has
\* current_page * items_per_page < len(all_clickable_items).
C7_PageWithinRegistry ==
    all_clickable_items # << >>
       => current_page * items_per_page < Len(all_clickable_items)

\* a prompt on the last of several pages, in a session that has clicked and
\* rebuilt the registry
C7_Witness ==
    /\ pc = "prompt"
    /\ post_click_snapshot.bound
    /\ current_page > 0
    /\ current_page = TotalPages(Len(all_clickable_items)) - 1

RECURSIVE WindowsConcat(_, _, _)
WindowsConcat(all_items, page, last_page) ==
    IF page > last_page THEN << >>
    ELSE CurrentPageItems(all_items, page)
            \o WindowsConcat(all_items, page + 1, last_page)

\* C8: the windows of pages 0..ceil(N/5)-1 partition the registry: laid end
\* to end they are the registry, every item is in exactly one window, every
\* window but the last has 5 items and the last has N mod 5 (5 when N is a
\* positive multiple of 5); an empty input below the last page moves to the
\* next page and makes its window the current one.
C8_WindowsPartitionRegistry ==
    /\ [](LET all_items == all_clickable_items
              n == Len(all_items)
              last == TotalPages(n) - 1
          IN  /\ WindowsConcat(all_items, 0, last) = all_items
              /\ \A i \in 1..n :
                    Cardinality({p \in 0..last :
                                   \E j \in 1..Len(CurrentPageItems(all_items, p)) :
                                      CurrentPageItems(all_items, p)[j] = all_items[i]}) = 1
              /\ \A p \in 0..(last - 1) :
                    Len(CurrentPageItems(all_items, p)) = items_per_page
              /\ n > 0 => Len(CurrentPageItems(all_items, last)) =
                             IF n % items_per_page = 0 THEN items_per_page
                             ELSE n % items_per_page)
    /\ [][(EmptyInput /\ current_page < TotalPages(Len(all_clickable_items)) - 1) =>
             /\ current_page' = current_page + 1
             /\ clickable_items' =
                   Handles(CurrentPageItems(all_clickable_items, current_page + 1))
         ]_vars

\* the third and last window of a registry, reached by stepping
C8_Witness ==
    /\ pc = "prompt"
    /\ Len(all_clickable_items) > 2 * items_per_page
    /\ current_page = 2
    /\ Len(clickable_items) = Len(all_clickable_items) - 2 * items_per_page

C10_DedupIdempotent ==
    Dedup(all_clickable_items) = all_clickable_items

\* a registry of several entries from which the deduplication removed some
C10_Witness ==
    /\ pc = "prompt"
    /\ Len(all_clickable_items) >= 2
    /\ filtered_count > Len(all_clickable_items)

C12_FailedClickReturnsToPrompt ==
    [][/\ (pc = "click" /\ ~clicked') =>
             /\ pc' = "announce"
             /\ last_spoken'.k = "could_not_click"
             /\ UNCHANGED <<all_clickable_items, current_page, sessvars, cur_url,
                            llmvars, fetch_branch, settlevars>>
       /\ (pc = "announce" /\ last_spoken.k \in {"could_not_click", "could_not_find"}) =>
             /\ pc' = "prompt"
             /\ last_spoken'.k \in {"options", "no_items", "error_identifying"}
             /\ interactive' /\ listener_running' /\ driver_open'
             /\ polls = 0 /\ ~content_changed
             /\ UNCHANGED <<drvvars, llmvars, fetch_branch, post_click_snapshot>>
      ]_vars

\* every attempted strategy has failed and the advisory has been spoken
C12_Witness ==
    /\ pc = "announce"
    /\ tried # << >>
    /\ ~clicked
    /\ last_spoken.k = "could_not_click"
    /\ llm_sent = << >>

\* C13: the interactive flag is cleared before the listener is stopped and
\* the listener is stopped before the browser is released; whenever crawl()
\* has ended, the flag is cleared, the listener is stopped and the browser
\* is released.
C13_EveryEndReleases ==
    /\ ~driver_open => ~listener_running
    /\ ~listener_running => ~interactive
    /\ pc \in {"done", "raised"} =>
          (~interactive /\ ~listener_running /\ ~driver_open)


\* whether the s-th content selector of the page has a match longer than the
\* threshold
Qualifies(page, s) ==
    /\ ~page.containers[s].raises
    /\ \E j \in DOMAIN page.containers[s].matches :
          page.containers[s].matches[j] > substance_threshold
SomeContainerQualifies(page) == \E s \in DOMAIN page.containers : Qualifies(page, s)

\* C14: as long as the page source can be read, fetch_dynamic returns a
\* fragment that is not None whatever else fails (page load, body script,
\* selector click, special extraction, container lookups, cleaning), and
\* when every earlier branch fails the fragment is the raw page source.
C14_FetchAlwaysReturnsFragment ==
    (pc # "fetch" /\ ~fetching.page.source_raises) =>
        /\ pc = "fetch_return"
        /\ html # PyNone
        /\ fetch_branch \in {"special", "container", "cleaned", "page_source",
                             "page_source_on_error"}
        /\ (\/ fetching.page.load_raises
            \/ fetching.page.script_raises
            \/ /\ fetching.page.special_raises
               /\ ~SomeContainerQualifies(fetching.page)
               /\ fetching.page.clean # "html")
              => html = Text("page_source", fetching.page.source_len)

\* the call returned although the page load, the click of the selector, the
\* special extraction, every container lookup and the cleaning all failed
C14_Witness ==
    /\ pc = "fetch_return"
    /\ fetching.click_selector # ""
    /\ fetching.page.click_raises
    /\ fetching.page.special_raises
    /\ \A s \in DOMAIN fetching.page.containers : fetching.page.containers[s].raises
    /\ fetching.page.clean = "raises"
    /\ fetching.page.body_len < sparse_body_length
    /\ html = Text("page_source", fetching.page.source_len)

\* the special extraction is entered: line 154
SpecialAttempted(f) == IsGoogle(f.url) \/ f.page.body_len < sparse_body_length

\* C15 as stated: the content containers are tried before the synthesized
\* structured document, which is returned only when no container has a
\* match above the threshold and is attempted (so returned, unless it
\* raises) whenever none has.
C15_ContainersBeforeStructured ==
    (pc = "fetch_return" /\ ~fetching.page.load_raises /\ ~fetching.page.script_raises) =>
        /\ fetch_branch = "special" => ~SomeContainerQualifies(fetching.page)
        /\ (~SomeContainerQualifies(fetching.page) /\ ~fetching.page.special_raises)
              => fetch_branch = "special"

\* C15 amended: the synthesized structured document comes first, and only
\* for a google.com URL or a body text shorter than 100: it is returned
\* whenever it is attempted and does not raise, whatever the containers
\* hold; otherwise the first qualifying container, then the cleaned
\* document, then the raw page source.
C15_StructuredBeforeContainers ==
    (pc = "fetch_return" /\ ~fetching.page.load_raises /\ ~fetching.page.script_raises) =>
        LET special == SpecialAttempted(fetching) /\ ~fetching.page.special_raises
            container == SomeContainerQualifies(fetching.page)
            cleaned == fetching.page.clean = "html"
        IN  /\ fetch_branch = "special" <=> special
            /\ fetch_branch = "container" <=> (~special /\ container)
            /\ fetch_branch = "cleaned" <=> (~special /\ ~container /\ cleaned)
            /\ fetch_branch = "page_source" <=> (~special /\ ~container /\ ~cleaned)

\* the structured document was returned although a container qualified
C15_Witness ==
    /\ pc = "fetch_return"
    /\ fetch_branch = "special"
    /\ SomeContainerQualifies(fetching.page)
    /\ html = Text("structured", fetching.page.structured_len)

\* the longest match above the threshold of the s-th content selector
LargestMatch(page, s) ==
    CHOOSE n \in {page.containers[s].matches[j] : j \in DOMAIN page.containers[s].matches} :
       \A j \in DOMAIN page.containers[s].matches : page.containers[s].matches[j] <= n

\* C16: when a container is returned, it is the longest match of the first
\* content selector that has a match above the threshold.
C16_LargestMatchReturned ==
    (pc = "fetch_return" /\ fetch_branch = "container") =>
        \E s \in DOMAIN fetching.page.containers :
           /\ Qualifies(fetching.page, s)
           /\ \A t \in 1..(s - 1) : ~Qualifies(fetching.page, t)
           /\ HLen(html) = LargestMatch(fetching.page, s)

\* the i-th character of a text: the run it belongs to and its place there
RECURSIVE CharAt(_, _)
CharAt(h, i) ==
    IF h = << >> THEN <<"none", 0>>
    ELSE IF i <= PieceLen(Head(h)) THEN <<Head(h).k, Head(h).lo + i - 1>>
    ELSE CharAt(Tail(h), i - PieceLen(Head(h)))

\* the places of a sent text looked at: both ends of its head, the marker
\* between them, both ends of its tail
HeadPlaces == {1, 2, 10, 11, 30000, 30001, 39999, 40000}
MarkerPlaces == 1..MarkerLen
TailPlaces == {1, 2, 9, 10, 11, 9999, 10000, 10001, 19999, 20000}

\* C17: every request of analyze_with_llm carries the fragment the
\* invocation was given unchanged when it has at most 60,000 characters;
\* for a longer fragment it carries the first 40,000 characters, the
\* marker, and the last 20,000 characters, 60,000 + len(marker) in all.
C17_TruncationKeepsHeadAndTail ==
    [][(pc = "llm" /\ llm_sent' # llm_sent) =>
          LET t == llm_sent'[Len(llm_sent')].text
              L == HLen(html)
          IN  IF L <= 60000
              THEN t = html
              ELSE /\ HLen(t) = 60000 + MarkerLen
                   /\ \A i \in HeadPlaces : CharAt(t, i) = CharAt(html, i)
                   /\ \A i \in MarkerPlaces : CharAt(t, 40000 + i) = <<"m1", i>>
                   /\ \A i \in TailPlaces :
                         CharAt(t, 40000 + MarkerLen + i) = CharAt(html, L - 20000 + i)
      ]_vars

\* a fragment of several runs longer than the limit was sent truncated
C17_Witness ==
    /\ pc = "analyzed"
    /\ llm_sent # << >>
    /\ llm_sent[1].len = 60000 + MarkerLen
    /\ CharAt(llm_sent[1].text, 1) = <<"a", 1>>
    /\ CharAt(llm_sent[1].text, 60000 + MarkerLen) = <<"c", 10>>

\* the summary a normalization starts from, after lines 542-551 / 840-849
SummaryIn == Cleaned(IF pc = "init_sum" THEN summary ELSE result.summary)
FirstTwoJoined(s) == Split(s)[1] \o <<".", " ">> \o Split(s)[2]

\* C18 as stated: a summary of three or more parts is spoken as its first
\* two parts joined by '. ' (with the final '.' it must end with), one of
\* at most two parts is spoken as it is; the same after a click as
\* initially.
C18_FirstTwoPartsJoined ==
    [][(InitSummarize \/ PostSummarize) =>
          IF Len(Split(SummaryIn)) >= 3
          THEN /\ last_spoken'.k = "summary"
               /\ last_spoken'.d \in {FirstTwoJoined(SummaryIn),
                                      FirstTwoJoined(SummaryIn) \o <<".">>}
               /\ EndsWithDot(last_spoken'.d)
          ELSE last_spoken' = Speak(Say("summary", SummaryIn))
      ]_vars

\* C18 amended: the first two parts joined by '. ' are stripped of leading
\* and trailing blanks before the '.' is appended (when the stripped text
\* does not end with one); a summary of at most two parts is spoken as it
\* is, or not at all when blank; the same after a click as initially.
C18_FirstTwoPartsJoinedStripped ==
    [][(InitSummarize \/ PostSummarize) =>
          IF Len(Split(SummaryIn)) >= 3
          THEN LET j == Strip(FirstTwoJoined(SummaryIn)) IN
               /\ last_spoken'.k = "summary"
               /\ last_spoken'.d = IF EndsWithDot(j) THEN j ELSE j \o <<".">>
               /\ EndsWithDot(last_spoken'.d)
          ELSE IF Strip(SummaryIn) = << >>
               THEN UNCHANGED last_spoken
               ELSE last_spoken' = Say("summary", SummaryIn)
      ]_vars

\* after a click a summary of three parts or more was spoken as its first
\* two sentences
C18_Witness ==
    /\ pc = "announce"
    /\ last_spoken = Say("summary", <<"a", ".", " ", "b", ".">>)

\* the distance between two measures
Apart(a, b) == IF a < b THEN b - a ELSE a - b

\* C19: a poll declares the content changed exactly when the text samples
\* differ, or the element counts are more than 5 apart, or the heights or
\* the widths are more than 50 apart, or the visible-element counts differ
\* (5 elements or 50 pixels apart do not trip); the poll that declares it
\* is the last one, and a poll that does not is counted and polling goes on.
C19_ChangeSignals ==
    [][Poll(PollSnapshots) =>
          LET pre == pre_click_snapshot
              post == post_click_snapshot'
              tripped ==
                 \/ pre.bodyText # post.bodyText
                 \/ Apart(pre.elementCount, post.elementCount) >= 6
                 \/ Apart(pre.height, post.height) >= 51
                 \/ Apart(pre.width, post.width) >= 51
                 \/ pre.visibleElements # post.visibleElements
          IN  /\ content_changed' <=> tripped
              /\ tripped => pc' = "settled"
              /\ ~tripped => (pc' = "poll" /\ polls' = polls + 1)
      ]_vars

\* a poll read a page 5 elements and 50 pixels each way from the baseline
\* and polling went on
C19_Witness ==
    /\ pc = "poll"
    /\ polls >= 1
    /\ ~content_changed
    /\ post_click_snapshot.bound
    /\ Apart(post_click_snapshot.elementCount, pre_click_snapshot.elementCount) = 5
    /\ Apart(post_click_snapshot.height, pre_click_snapshot.height) = 50
    /\ Apart(post_click_snapshot.width, pre_click_snapshot.width) = 50

\* C20: after a successful click the wait for the page to settle ends; when
\* the polling loop is left by its deadline the content stays declared
\* unchanged, and from there the page is fetched again, summarized again
\* and the registry rebuilt before the prompt.
C20_SettleTerminates ==
    /\ [][(PollEnd /\ ~content_changed) =>
             (pc' = "settled" /\ ~content_changed')]_vars
    /\ [][(pc = "settled" /\ ~content_changed) => pc' = "refetch"]_vars
    /\ (pc \in {"settle", "poll"}) ~> (pc \in {"settled", "refetch"})
    /\ (pc = "settled") ~> (pc \in {"refetch", "announce"})
    /\ (pc = "refetch") ~> (pc = "post_sum")
    /\ (pc = "post_sum") ~> (pc = "announce")
    /\ (pc = "announce") ~> (pc = "prompt")

\* the polling loop has used up its polls without a signal
C20_Witness ==
    /\ pc = "poll"
    /\ polls = MaxPolls
    /\ ~content_changed
    /\ post_click_snapshot = pre_click_snapshot

\* C21: the window check declares the content changed only in a click cycle
\* whose click opened a window; in a cycle whose click opened none, the
\* content is declared changed at the window and URL check only when the
\* URL changed.
C21_ChangedOnlyByNewWindow ==
    [][SettleStart =>
          ((content_changed' /\ cur_url' = current_url) => cycle.opened)]_vars

\* C22: an announcement made for the key listener leaves the session state
\* as it was: when the page still holds the elements of the registry, the
\* page counter and the current window are the same after it as before.
C22_ReannouncementKeepsSession ==
    [][(ListenerStore(KeyDiscoveries) /\ all_clickable_items' = all_clickable_items)
          => UNCHANGED <<current_page, clickable_items>>]_vars

\* C23: while the listener's thread runs announce_clickables, crawl() waits
\* at the input prompt: it is not clicking, waiting for the page to settle,
\* extracting, calling the LLM or rebuilding the registry.
C23_ListenerOnlyAtPrompt ==
    listener_pc # "idle" => pc = "prompt"

\* C24: a key starts an announcement only when it is the spacebar and the
\* interactive flag is set; any other key, and any key before line 565 has
\* set the flag or after line 872 has cleared it, changes nothing; the
\* callback has no way out but its return.
C24_OnlySpaceWhileInteractive ==
    /\ [](pc = "announce0" => listener_pc = "idle")
    /\ [][(\E key \in Keys : OnPressGlobal(key)) =>
             /\ UNCHANGED <<pc, cont, regvars, sessvars, drvvars, llmvars, summary,
                            fetch_branch, last_spoken, clickvars>>
             /\ listener_pc' \in {"idle", "announcing"}
             /\ listener_pc' = "announcing" =>
                   (interactive /\ OnPressGlobal("space") /\ ~OnPressGlobal("other"))
             /\ (~interactive \/ ~OnPressGlobal("space")) => UNCHANGED vars
         ]_vars
    /\ [][listener_pc' = "announcing" /\ listener_pc = "idle" =>
             (interactive /\ listener_running /\ pc \notin {"announce0", "done"})]_vars

\* the spacebar was pressed at the prompt and the announcement is under way
C24_Witness ==
    /\ listener_pc = "announcing"
    /\ interactive
    /\ pc = "prompt"

\* C25: when the first analysis of the start page suggests no click
\* selector, crawl() goes from the summary straight on to the first
\* announce_clickables, which builds the registry from the start page; and
\* after a click followed by a URL change the summary step of the analysis
\* speaks the new summary before the registry is rebuilt.
C25_SummaryThenRegistry ==
    /\ [][(pc = "init_sum" /\ cont = "init1") => pc' = "announce0"]_vars
    /\ [][(pc = "post_sum" /\ last_spoken.k = "page_changed") =>
             (pc' = "announce" /\ last_spoken'.k # "error_analyzing")]_vars

\* C26: the post-click snapshot that line 813 reads for the text delta was
\* taken by line 755 in the same click cycle.
C26_SnapshotOfThisCycle ==
    [][(AfterSettle /\ content_changed /\ cur_url = current_url)
          => cycle.snapshot_taken]_vars

\* C27: on the same-URL shortcut an empty text delta is followed by the
\* full analysis (fetch and LLM call) in that cycle, a non-empty delta is
\* spoken and followed by the registry rebuild without an LLM call.
C27_EmptyDeltaDegradesToAnalysis ==
    [][(AfterSettle /\ content_changed /\ cur_url = current_url
          /\ post_click_snapshot.bound) =>
          IF NewText(pre_click_snapshot, post_click_snapshot) = << >>
          THEN pc' = "refetch"
          ELSE pc' = "announce" /\ last_spoken'.k = "new_content"]_vars

\* the key the claim deduplicates by, and what makes a raw element eligible
Key30(identifier) ==
    [i \in 1..(IF Len(identifier) < 30 THEN Len(identifier) ELSE 30) |->
        LowerChar(identifier[i])]
Preferred(el) ==
    LET candidates == << Strip(el.text), el.aria, el.title, el.value >>
        nonempty == {c \in 1..4 : candidates[c] # << >>}
    IN  IF nonempty = {} THEN << >>
        ELSE candidates[CHOOSE c \in nonempty : \A d \in nonempty : c <= d]
Eligible(el) == ~el.stale /\ el.displayed /\ Preferred(el) # << >>

\* C28: the registry announce_clickables stores for a list of discovered
\* elements holds no two entries with the same lowercased first 30
\* characters; each entry is a displayed element with its identifier taken
\* from text, aria-label, title, value in that order and not empty; it is
\* the first eligible element with its key; entries are in discovery order;
\* and every eligible element's key is in the registry.
C28_RegistryDeduplicated ==
    [][AnnounceClickables({last_found'}) =>
          LET e == last_found'
              reg == all_clickable_items'
              at(i) == CHOOSE k \in DOMAIN e : e[k].h = reg[i][1]
          IN  /\ \A i, j \in DOMAIN reg :
                    i # j => Key30(reg[i][2]) # Key30(reg[j][2])
              /\ \A i \in DOMAIN reg :
                    /\ \E k \in DOMAIN e : e[k].h = reg[i][1]
                    /\ Eligible(e[at(i)])
                    /\ reg[i][2] = Preferred(e[at(i)])
                    /\ \A k \in 1..(at(i) - 1) :
                          Eligible(e[k]) => Key30(Preferred(e[k])) # Key30(reg[i][2])
              /\ \A i, j \in DOMAIN reg : i < j => at(i) < at(j)
              /\ \A k \in DOMAIN e :
                    Eligible(e[k]) =>
                       \E i \in DOMAIN reg : Key30(reg[i][2]) = Key30(Preferred(e[k]))
      ]_vars

\* of three eligible elements the second repeated the key of the first and
\* was dropped, the third kept after the first
C28_Witness ==
    /\ pc = "prompt"
    /\ filtered_count = 3
    /\ Len(all_clickable_items) = 2
    /\ all_clickable_items[1][1] = El(1)
    /\ all_clickable_items[2][1] = El(3)
    /\ Key30(all_clickable_items[1][2]) # all_clickable_items[1][2]

\* C29: an accepted option number n makes click_item, the element whose
\* description is saved and which the direct click is tried on, the registry
\* element at index current_page*5 + (n-1), the one spoken as "Option n" for
\* the current window, on the first page and on every page an empty input
\* has advanced to.
C29_OptionSelectsAnnounced ==
    [][\A n \in Numbers : Choose(n) =>
          LET k == current_page * items_per_page + (n - 1)
              announced == PageAnnouncement(all_clickable_items, current_page)
          IN  /\ n >= 1
              /\ k + 1 \in DOMAIN all_clickable_items
              /\ click_item' = all_clickable_items[k + 1][1]
              /\ idx' = n - 1
    /\ advance_local' = 0
              /\ announced.k = "options"
              /\ announced.d[3][n] = OptionLabel(all_clickable_items[k + 1][2])
              /\ UNCHANGED <<all_clickable_items, current_page, clickable_items>>
      ]_vars


\* C30: at every prompt the registry and the current window hold no element
\* that was found before the last click that succeeded: a rebuild by
\* announce_clickables, which replaces both, lies between that click and
\* the prompt and nothing older is stored after it.
C30_PromptAfterClickIsRebuilt ==
    pc = "prompt" => ~cycle.stale

\* C32: the listener's thread waits for and queries the page's elements
\* (lines 408-422) only while the browser is not yet released by
\* driver.quit(): no such query follows the teardown of lines 872-875.
C32_NoQueryAfterQuit ==
    [][ListenerQuery => driver_open]_vars

\* C31: however the steps of the listener's announce_clickables and of the
\* empty-line advance interleave, a window announced for a registry that is
\* not empty lies inside it (current_page*5 < len(registry)) and is not
\* spoken as "No clickable items detected".
C31_PaginationUnderInterleaving ==
    [][(AdvanceAnnounce \/ ListenerAnnouncePage) =>
          (all_clickable_items # << >> =>
              /\ current_page * items_per_page < Len(all_clickable_items)
              /\ last_spoken'.k # "no_items")]_vars
=============================================================================
